---- MODULE Spec2Model ----
(***************************************************************************)
(* bart-proxy: the real-time feed poller (GtfsMonitor), the static index   *)
(* (StaticDataService) and the aggregation engine (TransitService).        *)
(*                                                                         *)
(* Time is the JavaScript clock in milliseconds.  The event loop is single *)
(* threaded: every action below is one run-to-completion slice of code     *)
(* between two awaits (or one timer callback), so its assignments are      *)
(* atomic with respect to every other action.                              *)
(***************************************************************************)
EXTENDS Integers, Sequences, FiniteSets, TLC

VARIABLES
    now,         \* Date.now()
    isPolling,   \* this.isPolling
    timers,      \* the setInterval timers of start(), in the order of creation
    feed,        \* this.tripsFeed, this.alertsFeed
    lastUpdate,  \* this.lastTripsUpdate, this.lastAlertsUpdate
    error,       \* this.tripsError, this.alertsError
    stats,       \* this.stats
    started,     \* per kind, the refreshes begun so far
    proc,        \* per kind, the refreshes: the calls of updateTrips/updateAlerts
    writer,      \* per kind, the refresh that last assigned the snapshot, the
                 \* one that last assigned the timestamp and the one that
                 \* last assigned the error (history)
    startCalls,  \* the calls of start() so far (history)
    faults,      \* the faults of the upstream so far
    staticData,  \* staticDataService: its maps and its initialized flag
    upstream,    \* per kind, the entities of the feed the upstream serves
    response,    \* what a request handler holds between the return of the
                 \* read it called and the reply it sends
    disk,        \* the four files of config.paths.staticData
    updater,     \* gtfsUpdater: its fields, the position of checkForUpdates()
                 \* and the steps of its last run (history)
    process      \* the process: whether it exited and with which status,
                 \* whether app.listen() was called

vars == <<now, isPolling, timers, feed, lastUpdate, error, stats, started,
          proc, writer, startCalls, faults, staticData, upstream, response,
          disk, updater, process>>

\* what neither the poller nor a read assigns
hostVars == <<disk, updater, process>>

\* what the poller never assigns
engineVars == <<staticData, upstream, response, hostVars>>

----------------------------------------------------------------------------
(* Bounds of the model *)

\* refreshes started per feed kind
MaxRefresh == 3
\* calls of start()
MaxStarts == 2
\* transport faults of the upstream (refused connection, silence, a body that
\* is late, never ends or does not decode); answering at once with 200 or
\* with 503 is no fault and is not bounded
MaxFaults == 1

----------------------------------------------------------------------------
(* Program constants *)

\* const retries = 3
Retries == 3
\* setTimeout(() => controller.abort(), 10000)
Timeout == 10000
\* config.refreshInterval
RefreshInterval == 30000

Kinds == {"trips", "alerts"}

\* JavaScript null
Null == [null |-> TRUE]

\* new Date() taken at instant t
Date(t) == [time |-> t]

\* the causes that reject fetch(): a transport error, or the abort signal
NetworkError == "fetch failed"
AbortError == "This operation was aborted"
\* throw new Error(`HTTP ${response.status}: ${response.statusText}`)
HttpError == "HTTP 503: Service Unavailable"
\* FeedMessage.decode throws
DecodeError == "invalid wire type"

\* an Error object: its message, and the attempt that created it
Err(m, r, a) == [message |-> m, refresh |-> r, attempt |-> a]

\* the FeedMessage decoded from the response to the request that refresh r
\* issued at instant t
Payload(k, r, t) == [kind |-> k, refresh |-> r, issued |-> t,
                     entity |-> upstream[k]]

\* A refresh that was not started yet
IdleProc == [pc |-> "idle", attempt |-> 0, timer |-> 0, issuedAt |-> 0,
             due |-> {}, fetches |-> 0, fails |-> 0]

\* A refresh whose promise has settled ("ok" or "failed"): its locals are gone
DoneProc(pc) == [IdleProc EXCEPT !.pc = pc]

\* The call of updateTrips()/updateAlerts() up to its first await: fetchFeed
\* enters the loop with attempt = 1, arms the abort timer and issues fetch()
NewProc == [pc |-> "fetch", attempt |-> 1, timer |-> now + Timeout,
            issuedAt |-> now, due |-> {now}, fetches |-> 1, fails |-> 0]

\* (mutant) both kinds polled at the same interval
PeriodSame(k) == RefreshInterval

\* setInterval(() => this.updateTrips(), config.refreshInterval)
\* setInterval(() => this.updateAlerts(), config.refreshInterval * 2)
Period(k) == IF k = "trips" THEN RefreshInterval ELSE RefreshInterval * 2

NewTimer(k) == [kind |-> k, next |-> now + Period(k), fired |-> 0]

\* (mutant) a fixed wait of one second between attempts
BackoffFixed(attempt) == 1000

\* const delay = 1000 * Math.pow(2, attempt - 1)
Backoff(attempt) == 1000 * (2 ^ (attempt - 1))

\* (mutant) one attempt more than the budget
IsLastAttemptOneMore(attempt) == attempt = Retries + 1

\* const isLastAttempt = attempt === retries
IsLastAttempt(attempt) == attempt = Retries

----------------------------------------------------------------------------
(* JavaScript strings, numbers and dates *)

UpperCase == "ABCDEFGHIJKLMNOPQRSTUVWXYZ"
LowerCase == "abcdefghijklmnopqrstuvwxyz"

\* the lower-case form of the one-character string c
LowerChar(c) ==
    LET I == {i \in 1..Len(UpperCase) : SubSeq(UpperCase, i, i) = c}
    IN IF I = {} THEN c
       ELSE LET i == CHOOSE j \in I : TRUE IN SubSeq(LowerCase, i, i)

\* String.prototype.toLowerCase
RECURSIVE ToLowerCase(_)
ToLowerCase(str) ==
    IF str = "" THEN ""
    ELSE LowerChar(SubSeq(str, 1, 1)) \o ToLowerCase(SubSeq(str, 2, Len(str)))

\* String.prototype.includes
Includes(str, sub) ==
    \E i \in 1..(Len(str) - Len(sub) + 1) : SubSeq(str, i, i + Len(sub) - 1) = sub

Digits == "0123456789"
Digit(n) == SubSeq(Digits, n + 1, n + 1)
DigitValue(c) == CHOOSE n \in 0..9 : Digit(n) = c
Pad2(n) == Digit((n \div 10) % 10) \o Digit(n % 10)
Pad3(n) == Digit((n \div 100) % 10) \o Pad2(n % 100)
Num2(str, i) == 10 * DigitValue(SubSeq(str, i, i)) + DigitValue(SubSeq(str, i + 1, i + 1))

\* Math.round(n / d) for d > 0: the nearest integer, halves going up
Round(n, d) == (2 * n + d) \div (2 * d)

\* A timestamp of a feed is a count of seconds since the epoch in a 64-bit
\* field: here days * 86400 + secs, with 0 for a field that is not set
PosixTime(d, sec) == [days |-> d, secs |-> sec]
NoTime == PosixTime(0, 0)

\* the last day a JavaScript Date can hold: 8.64e15 ms after the epoch
MaxDateDays == 100000000

\* new Date(NaN or a time out of range)
InvalidDate == [invalid |-> TRUE]

\* new Date((t - delay) * 1000) for a timestamp t of the feed; the valid
\* dates of the model lie within the first day
DateOfSeconds(t, delay) ==
    IF t.days > MaxDateDays \/ (t.days = MaxDateDays /\ t.secs - delay > 0)
    THEN InvalidDate
    ELSE Date((t.secs - delay) * 1000)

\* Date.prototype.toISOString of a valid date of the first day; on an invalid
\* date it throws this RangeError
RangeError == "Invalid time value"
ToISOString(d) ==
    LET ms == d.time
    IN "1970-01-01T" \o Pad2(ms \div 3600000) \o ":"
          \o Pad2((ms \div 60000) % 60) \o ":"
          \o Pad2((ms \div 1000) % 60) \o "." \o Pad3(ms % 1000) \o "Z"

\* new Date(isoString) - 0: the milliseconds of an ISO string of the first day
DateParse(str) ==
    Num2(str, 12) * 3600000 + Num2(str, 15) * 60000 + Num2(str, 18) * 1000
       + DigitValue(SubSeq(str, 21, 21)) * 100 + Num2(str, 22)

----------------------------------------------------------------------------
(* The static schedule: the files in config.paths.staticData and the index *)
(* that load() builds from them                                             *)

StopsFile ==
    << [stop_id |-> "M20-2", stop_name |-> "Montgomery St.", stop_code |-> "MONT",
        platform_code |-> "2"],
       [stop_id |-> "A10-1", stop_name |-> "Lake Merritt", stop_code |-> "LAKE",
        platform_code |-> "1"] >>

RoutesFile ==
    << [route_id |-> "1", route_short_name |-> "Yellow-S",
        route_long_name |-> "Antioch to SFIA/Millbrae", route_color |-> "FFFF33",
        route_text_color |-> "000000"],
       [route_id |-> "2", route_short_name |-> "Yellow-N",
        route_long_name |-> "Millbrae/SFIA to Antioch", route_color |-> "FFFF33",
        route_text_color |-> "000000"],
       [route_id |-> "6", route_short_name |-> "Green-S",
        route_long_name |-> "Berryessa to Daly City", route_color |-> "",
        route_text_color |-> ""] >>

TripsFile ==
    << [trip_id |-> "1001", route_id |-> "2", trip_headsign |-> "Richmond / Antioch",
        direction_id |-> "0"],
       [trip_id |-> "1002", route_id |-> "1", trip_headsign |-> "SFO/Millbrae",
        direction_id |-> "1"],
       [trip_id |-> "1003", route_id |-> "6", trip_headsign |-> "SFO/Millbrae",
        direction_id |-> "1"],
       [trip_id |-> "1004", route_id |-> "11", trip_headsign |-> "",
        direction_id |-> "0"],
       [trip_id |-> "1005", route_id |-> "1", trip_headsign |-> "Antioch",
        direction_id |-> "0"] >>

StopTimesFile ==
    << [trip_id |-> "1001", stop_id |-> "M20-2", stop_sequence |-> "1"],
       [trip_id |-> "1001", stop_id |-> "A10-1", stop_sequence |-> "2"],
       [trip_id |-> "1002", stop_id |-> "M20-2", stop_sequence |-> "1"] >>

StaticFiles == [stops |-> StopsFile, routes |-> RoutesFile, trips |-> TripsFile,
                stopTimes |-> StopTimesFile]

\* rows.forEach(row => map.set(row[key], row)): a later row replaces an
\* earlier one of the same key
LoadTable(rows, key) ==
    [id \in {rows[i][key] : i \in 1..Len(rows)} |->
        rows[CHOOSE i \in 1..Len(rows) :
                /\ rows[i][key] = id
                /\ \A j \in (i + 1)..Len(rows) : rows[j][key] # id]]

\* the stop_times rows of each trip, in the order of the file
LoadStopTimes(rows) ==
    [id \in {rows[i].trip_id : i \in 1..Len(rows)} |->
        SelectSeq(rows, LAMBDA row : row.trip_id = id)]

\* new StaticDataService()
EmptyIndex == [stops |-> <<>>, routes |-> <<>>, trips |-> <<>>,
               stopTimes |-> <<>>, initialized |-> FALSE]

\* load() over files that parse
Load(files) == [stops |-> LoadTable(files.stops, "stop_id"),
                routes |-> LoadTable(files.routes, "route_id"),
                trips |-> LoadTable(files.trips, "trip_id"),
                stopTimes |-> LoadStopTimes(files.stopTimes),
                initialized |-> TRUE]

\* a file of the directory: whether readFileSync and parse succeed on it,
\* and its rows
File(rows) == [readable |-> TRUE, rows |-> rows]

\* a file that is missing or that parse rejects
Unreadable == [readable |-> FALSE, rows |-> <<>>]

\* the directory holding the files
DiskOf(files) == [f \in DOMAIN files |-> File(files[f])]

\* the order in which load() reads the files
FileOrder == <<"stops", "routes", "trips", "stopTimes">>

\* map.set(key, row) for every entry of added
MapSetAll(map, added) ==
    [id \in DOMAIN map \cup DOMAIN added |->
        IF id \in DOMAIN added THEN added[id] ELSE map[id]]

\* this.stopTimes.get(trip_id).push(stopTime) for the rows of added
PushAll(map, added) ==
    [id \in DOMAIN map \cup DOMAIN added |->
        (IF id \in DOMAIN map THEN map[id] ELSE <<>>)
           \o (IF id \in DOMAIN added THEN added[id] ELSE <<>>)]

\* load(): nothing when initialized; else the files are read in order into
\* the maps, and the first that cannot be read ends the load with the
\* error thrown and the maps as they are by then
LoadFrom(index, dir) ==
    IF index.initialized THEN [threw |-> FALSE, index |-> index]
    ELSE LET bad == {i \in 1..Len(FileOrder) : ~dir[FileOrder[i]].readable}
             read == IF bad = {} THEN Len(FileOrder)
                     ELSE (CHOOSE i \in bad : \A j \in bad : i <= j) - 1
         IN [threw |-> bad # {},
             index |->
               [stops |-> IF read >= 1
                          THEN MapSetAll(index.stops,
                                         LoadTable(dir.stops.rows, "stop_id"))
                          ELSE index.stops,
                routes |-> IF read >= 2
                           THEN MapSetAll(index.routes,
                                          LoadTable(dir.routes.rows, "route_id"))
                           ELSE index.routes,
                trips |-> IF read >= 3
                          THEN MapSetAll(index.trips,
                                         LoadTable(dir.trips.rows, "trip_id"))
                          ELSE index.trips,
                stopTimes |-> IF read >= 4
                              THEN PushAll(index.stopTimes,
                                           LoadStopTimes(dir.stopTimes.rows))
                              ELSE index.stopTimes,
                initialized |-> bad = {}]]

\* (mutant) reload() that reads the files over the maps as they are
ReloadOver(index, dir) == LoadFrom([index EXCEPT !.initialized = FALSE], dir)

\* reload(): the four maps are cleared, initialized is reset, then load()
Reload(index, dir) == LoadFrom(EmptyIndex, dir)

\* Map.prototype.get
MapGet(map, key) == IF key \in DOMAIN map THEN map[key] ELSE Null

\* getStop(stopId), getRoute(routeId)
GetStop(stopId) == MapGet(staticData.stops, stopId)
GetRoute(routeId) == MapGet(staticData.routes, routeId)

\* (mutant) a trip that the index does not hold is inferred from its id
GetTripInferred(tripId) ==
    IF tripId \in DOMAIN staticData.trips THEN staticData.trips[tripId]
    ELSE [trip_id |-> tripId, route_id |-> tripId, trip_headsign |-> "",
          direction_id |-> "0"]

\* getTrip(tripId)
GetTrip(tripId) == MapGet(staticData.trips, tripId)

----------------------------------------------------------------------------
(* The feeds of the upstream: the entities of a decoded FeedMessage.  A    *)
(* field that is not set is Null (an object), "" (a string) or 0 (a number) *)

\* timestamps of the feeds
MaxTimes == 4

\* arrival / departure of a stop-time update
StopTimeEvent(t, delay) == [time |-> t, delay |-> delay]

StopTimeUpdate(stopId, arrival, departure) ==
    [stopId |-> stopId, arrival |-> arrival, departure |-> departure]

\* an entity with a trip update
TripEntity(tripId, label, stopTimeUpdate) ==
    [tripUpdate |-> [trip |-> [tripId |-> tripId],
                     vehicle |-> IF label = "" THEN Null ELSE [label |-> label],
                     stopTimeUpdate |-> stopTimeUpdate],
     alert |-> Null]

\* an entity with an alert: the stops it informs about and the first
\* translation of its header and of its description
AlertEntity(stopIds, header, description) ==
    [tripUpdate |-> Null,
     alert |-> [informedEntity |-> stopIds, headerText |-> header,
                descriptionText |-> description]]

\* an entity with a vehicle position only
OtherEntity == [tripUpdate |-> Null, alert |-> Null]

\* the k-th timestamp of the feeds: 30 s, 60 s, ... after the epoch, so that
\* the clock of the poller passes some of them
FeedTime(n) == PosixTime(0, 30 * n)

\* a timestamp that no Date can hold
BeyondDates == PosixTime(MaxDateDays + 1, 0)

Arrives(stopId, n, delay) ==
    StopTimeUpdate(stopId, StopTimeEvent(FeedTime(n), delay), Null)
Departs(stopId, n, delay) ==
    StopTimeUpdate(stopId, Null, StopTimeEvent(FeedTime(n), delay))

\* a trip-updates feed whose entities come latest arrival first
TripsFeedA ==
    << TripEntity("1001", "3-car", <<Arrives("M20-2", MaxTimes, 30)>>),
       OtherEntity,
       TripEntity("1002", "", <<Departs("M20-2", 3, 0)>>),
       TripEntity("", "", <<Arrives("M20-2", 3, 0)>>),
       TripEntity("9999", "", <<Arrives("M20-2", 2, 0)>>),
       TripEntity("1003", "", <<Arrives("A10-1", 1, 0), Arrives("M20-2", 2, -20)>>),
       TripEntity("1004", "", <<Arrives("M20-2", 1, 0)>>),
       TripEntity("1005", "", <<StopTimeUpdate("M20-2", Null, Null)>>) >>

\* a trip-updates feed in another order, with two arrivals at one instant
TripsFeedB ==
    << TripEntity("1005", "", <<StopTimeUpdate("M20-2",
                                               StopTimeEvent(FeedTime(2), 0),
                                               StopTimeEvent(FeedTime(3), 60))>>),
       TripEntity("1004", "", <<Arrives("M20-2", MaxTimes, 60)>>),
       TripEntity("1003", "", <<Arrives("M20-2", 2, 0)>>),
       TripEntity("1002", "", <<Arrives("M20-2", 3, 0)>>),
       TripEntity("1001", "", <<Arrives("M20-2", 1, 0)>>) >>

\* a trip-updates feed with an arrival time that no Date can hold
TripsFeedC ==
    << TripEntity("1001", "", <<Arrives("M20-2", 2, 0)>>),
       TripEntity("1002", "",
                  <<StopTimeUpdate("M20-2", StopTimeEvent(BeyondDates, 0), Null)>>) >>

AlertsFeedA ==
    << AlertEntity(<<"A10-1", "M20-2">>, "", "Elevator out of service"),
       OtherEntity,
       AlertEntity(<<"A10-1">>, "Delays", "") >>

\* the feeds the upstream may serve
Upstreams ==
    { [trips |-> TripsFeedA, alerts |-> AlertsFeedA],
      [trips |-> TripsFeedB, alerts |-> <<>>],
      [trips |-> <<>>, alerts |-> AlertsFeedA],
      [trips |-> TripsFeedC, alerts |-> <<>>] }

----------------------------------------------------------------------------
(* Reads *)

\* getTrips() / getAlerts()
GetSnapshot(k) == IF feed[k] = Null THEN Null ELSE feed[k]

\* getStatus().trips / getStatus().alerts
GetStatus(k) == [lastUpdate |-> lastUpdate[k],
                 hasData |-> feed[k] # Null,
                 error |-> IF error[k] # Null THEN error[k].message ELSE Null]

\* getStatus().stats
GetStats == stats

----------------------------------------------------------------------------
(* The aggregation engine: TransitService.getStopInfo.  A call yields the  *)
(* StopInfo it returns or the message of the error it throws, and the      *)
(* reads of the index and of the monitor it made, in their order.  The     *)
(* coordinates of the stop, the colours of the route, the occupancy of the *)
(* vehicle and the url and periods of an alert are passed through by the   *)
(* code and are left out.                                                   *)

\* if (dataAge > 120000)
StaleAfter == 120000

\* the decimal form of a natural number
RECURSIVE NumberToString(_)
NumberToString(n) ==
    IF n < 10 THEN Digit(n) ELSE NumberToString(n \div 10) \o Digit(n % 10)

\* const time = arrival?.time || departure?.time
StuTime(stu) ==
    IF stu.arrival # Null /\ stu.arrival.time # NoTime THEN stu.arrival.time
    ELSE IF stu.departure # Null THEN stu.departure.time
    ELSE NoTime

\* const delay = arrival?.delay || departure?.delay || 0
StuDelay(stu) ==
    IF stu.arrival # Null /\ stu.arrival.delay # 0 THEN stu.arrival.delay
    ELSE IF stu.departure # Null THEN stu.departure.delay
    ELSE 0

\* (mutant) an arrival at the very instant of the request is kept
IsFutureOrNow(t, nowSec) == t.days > 0 \/ t.secs >= nowSec

\* Number(time) > now, for now (in seconds) within the first day
IsFuture(t, nowSec) == t.days > 0 \/ t.secs > nowSec

\* the guards of _processTrips on a stop-time update
Emits(stu, stopId, nowSec) ==
    /\ stu.stopId = stopId
    /\ stu.arrival # Null \/ stu.departure # Null
    /\ StuTime(stu) # NoTime
    /\ IsFuture(StuTime(stu), nowSec)

\* the guards of _processTrips on an entity: it has a trip update with a
\* trip id that getTrip resolves
Resolves(entity) ==
    /\ entity.tripUpdate # Null
    /\ entity.tripUpdate.trip # Null
    /\ entity.tripUpdate.trip.tripId # ""
    /\ GetTrip(entity.tripUpdate.trip.tripId) # Null

\* the stop-time updates of the feed that pass the guards, each with its
\* trip update, in the order in which the two forEach loops visit them
RECURSIVE Emitting(_, _, _)
Emitting(entities, stopId, nowSec) ==
    IF entities = <<>> THEN <<>>
    ELSE LET entity == Head(entities)
             stus == IF Resolves(entity)
                     THEN SelectSeq(entity.tripUpdate.stopTimeUpdate,
                                    LAMBDA stu : Emits(stu, stopId, nowSec))
                     ELSE <<>>
         IN [i \in 1..Len(stus) |-> [tripUpdate |-> entity.tripUpdate,
                                     stopTimeUpdate |-> stus[i]]]
               \o Emitting(Tail(entities), stopId, nowSec)

\* new Date(scheduledTime * 1000).toISOString() or arrivalTime.toISOString()
\* throws
TripInfoThrows(x) ==
    \/ DateOfSeconds(StuTime(x.stopTimeUpdate), StuDelay(x.stopTimeUpdate)) = InvalidDate
    \/ DateOfSeconds(StuTime(x.stopTimeUpdate), 0) = InvalidDate

\* the tripInfo pushed for a stop-time update that passed the guards
TripInfo(x, nowSec) ==
    LET tripId == x.tripUpdate.trip.tripId
        trip == GetTrip(tripId)
        route == GetRoute(trip.route_id)
        vehicle == x.tripUpdate.vehicle
        time == StuTime(x.stopTimeUpdate)
        delay == StuDelay(x.stopTimeUpdate)
        info == [tripId |-> tripId,
                 routeId |-> trip.route_id,
                 routeName |-> IF route # Null /\ route.route_short_name # ""
                               THEN route.route_short_name ELSE trip.route_id,
                 routeLongName |-> IF route # Null THEN route.route_long_name ELSE "",
                 headsign |-> trip.trip_headsign,
                 direction |-> IF trip.direction_id = "0" THEN "outbound" ELSE "inbound",
                 scheduledArrival |-> ToISOString(DateOfSeconds(time, delay)),
                 estimatedArrival |-> ToISOString(DateOfSeconds(time, 0)),
                 minutesUntilArrival |-> Round(time.secs - nowSec, 60),
                 delay |-> delay]
    IN IF vehicle # Null /\ vehicle.label # ""
       THEN info @@ [vehicleLabel |-> vehicle.label]
       ELSE info

\* _processTrips(tripsFeed, stopInfo, stopId): the predictions it pushes
ProcessTrips(tripsFeed, stopId) ==
    LET nowSec == now \div 1000
        emitting == Emitting(tripsFeed.entity, stopId, nowSec)
    IN [i \in 1..Len(emitting) |-> TripInfo(emitting[i], nowSec)]

\* _processTrips throws
ProcessTripsThrows(tripsFeed, stopId) ==
    LET emitting == Emitting(tripsFeed.entity, stopId, now \div 1000)
    IN \E i \in 1..Len(emitting) : TripInfoThrows(emitting[i])

\* new Date(a.estimatedArrival) - new Date(b.estimatedArrival) < 0
ArrivesBefore(a, b) == DateParse(a.estimatedArrival) < DateParse(b.estimatedArrival)

\* Array.prototype.sort with that comparison: a stable sort
RECURSIVE InsertTrip(_, _)
InsertTrip(sorted, trip) ==
    IF sorted = <<>> THEN <<trip>>
    ELSE IF ArrivesBefore(trip, Head(sorted)) THEN <<trip>> \o sorted
    ELSE <<Head(sorted)>> \o InsertTrip(Tail(sorted), trip)

RECURSIVE SortTrips(_)
SortTrips(trips) ==
    IF trips = <<>> THEN <<>>
    ELSE InsertTrip(SortTrips(SubSeq(trips, 1, Len(trips) - 1)), trips[Len(trips)])

\* the destinations that the filter looks for in a headsign
EastboundHeadsigns == {"antioch", "berryessa", "dublin", "pittsburg"}
WestboundHeadsigns == {"millbrae", "sfo", "daly city", "richmond"}

\* (mutant) a filter that looks at the headsign only
KeepsTripByHeadsign(trip, direction) ==
    LET headsign == ToLowerCase(trip.headsign)
        dir == ToLowerCase(direction)
    IN IF dir = "eastbound"
       THEN \E name \in EastboundHeadsigns : Includes(headsign, name)
       ELSE IF dir = "westbound"
       THEN \E name \in WestboundHeadsigns : Includes(headsign, name)
       ELSE TRUE

\* (mutant) a filter that compares the direction as it was given
KeepsTripCaseSensitive(trip, direction) ==
    LET routeName == ToLowerCase(trip.routeName)
        headsign == ToLowerCase(trip.headsign)
    IN IF direction = "eastbound"
       THEN \/ Includes(routeName, "n")
            \/ \E name \in EastboundHeadsigns : Includes(headsign, name)
       ELSE IF direction = "westbound"
       THEN \/ Includes(routeName, "s")
            \/ \E name \in WestboundHeadsigns : Includes(headsign, name)
       ELSE TRUE

\* the callback of filter in _sortAndFilterTrips
KeepsTrip(trip, direction) ==
    LET routeName == ToLowerCase(trip.routeName)
        headsign == ToLowerCase(trip.headsign)
        dir == ToLowerCase(direction)
    IN IF dir = "eastbound"
       THEN \/ Includes(routeName, "n")
            \/ \E name \in EastboundHeadsigns : Includes(headsign, name)
       ELSE IF dir = "westbound"
       THEN \/ Includes(routeName, "s")
            \/ \E name \in WestboundHeadsigns : Includes(headsign, name)
       ELSE TRUE

\* no direction was given: null or ""
NoDirection == ""

\* (mutant) the list is filtered and left in the order of the feed
FilterTripsUnsorted(trips, direction) ==
    IF direction # NoDirection
    THEN SelectSeq(trips, LAMBDA trip : KeepsTrip(trip, direction))
    ELSE trips

\* _sortAndFilterTrips(stopInfo, direction): the list it leaves
SortAndFilterTrips(trips, direction) ==
    IF direction # NoDirection
    THEN SelectSeq(SortTrips(trips), LAMBDA trip : KeepsTrip(trip, direction))
    ELSE SortTrips(trips)

\* alert.informedEntity?.some(ie => ie.stopId === stopId)
AffectsStop(alert, stopId) ==
    \E i \in 1..Len(alert.informedEntity) : alert.informedEntity[i] = stopId

\* _processAlerts(alertsFeed, stopInfo, stopId): the alerts it pushes
ProcessAlerts(alertsFeed, stopId) ==
    LET affecting == SelectSeq(alertsFeed.entity,
                               LAMBDA entity : /\ entity.alert # Null
                                               /\ AffectsStop(entity.alert, stopId))
    IN [i \in 1..Len(affecting) |->
          [header |-> IF affecting[i].alert.headerText # ""
                      THEN affecting[i].alert.headerText ELSE "Alert",
           description |-> affecting[i].alert.descriptionText]]

\* if (tripsStatus.error), if (gtfsMonitor.getStatus().alerts.error): the
\* message that getStatus() reports is neither null nor ""
StatusErrorTruthy(k) == error[k] # Null /\ error[k].message # ""

\* (mutant) a missing snapshot is always reported as initializing
TripsWarningsInitializing(tripsFeed, tripsStatus) ==
    IF tripsFeed = Null THEN <<"Real-time trip data initializing...">> ELSE <<>>

\* (mutant) a snapshot counts as stale from the threshold on
TripsWarningsStaleAtLimit(tripsFeed, tripsStatus) ==
    IF tripsFeed = Null
    THEN IF StatusErrorTruthy("trips")
         THEN <<"Real-time trip data unavailable: " \o tripsStatus.error>>
         ELSE <<"Real-time trip data initializing...">>
    ELSE LET dataAge == now - tripsStatus.lastUpdate.time
         IN IF dataAge >= StaleAfter
            THEN <<"Real-time data is stale ("
                      \o NumberToString(Round(dataAge, 1000)) \o "s old)">>
            ELSE <<>>

\* the warnings pushed after the trip-updates snapshot and its status were
\* read
TripsWarnings(tripsFeed, tripsStatus) ==
    IF tripsFeed = Null
    THEN IF StatusErrorTruthy("trips")
         THEN <<"Real-time trip data unavailable: " \o tripsStatus.error>>
         ELSE <<"Real-time trip data initializing...">>
    ELSE LET dataAge == now - (IF tripsStatus.lastUpdate # Null
                               THEN tripsStatus.lastUpdate.time ELSE 0)
         IN IF dataAge > StaleAfter
            THEN <<"Real-time data is stale ("
                      \o NumberToString(Round(dataAge, 1000)) \o "s old)">>
            ELSE <<>>

\* (mutant) the timestamp of the snapshot is taken only while it is not
\* stale
LastUpdatedWhileFresh(tripsFeed, tripsStatus) ==
    IF tripsFeed # Null /\ tripsStatus.lastUpdate # Null
          /\ now - tripsStatus.lastUpdate.time <= StaleAfter
    THEN ToISOString(tripsStatus.lastUpdate)
    ELSE ToISOString(Date(now))

\* stopInfo.lastUpdated
LastUpdated(tripsFeed, tripsStatus) ==
    IF tripsFeed # Null /\ tripsStatus.lastUpdate # Null
    THEN ToISOString(tripsStatus.lastUpdate)
    ELSE ToISOString(Date(now))

\* the warning pushed after the alerts snapshot was read
AlertsWarnings(alertsFeed) ==
    IF alertsFeed = Null /\ StatusErrorTruthy("alerts")
    THEN <<"Real-time alerts data unavailable">>
    ELSE <<>>

\* (mutant) the feeds are read before the stop is looked up
NotFoundAfterFeeds(stopId) ==
    [threw |-> TRUE, message |-> "Stop " \o stopId \o " not found",
     reads |-> <<"gtfsMonitor.getTrips", "gtfsMonitor.getStatus",
                 "staticDataService.getStop">>]

\* throw new Error(`Stop ${stopId} not found`)
NotFound(stopId) ==
    [threw |-> TRUE, message |-> "Stop " \o stopId \o " not found",
     reads |-> <<"staticDataService.getStop">>]

\* getStopInfo(stopId, direction)
GetStopInfo(stopId, direction) ==
    LET stop == GetStop(stopId)
        tripsFeed == GetSnapshot("trips")
        tripsStatus == GetStatus("trips")
        alertsFeed == GetSnapshot("alerts")
        tripReads == <<"staticDataService.getStop", "gtfsMonitor.getTrips",
                       "gtfsMonitor.getStatus">>
        alertReads == IF alertsFeed = Null
                      THEN <<"gtfsMonitor.getAlerts", "gtfsMonitor.getStatus">>
                      ELSE <<"gtfsMonitor.getAlerts">>
    IN IF stop = Null THEN NotFound(stopId)
       ELSE IF tripsFeed # Null /\ ProcessTripsThrows(tripsFeed, stopId)
       THEN [threw |-> TRUE, message |-> RangeError, reads |-> tripReads]
       ELSE [threw |-> FALSE,
             reads |-> tripReads \o alertReads,
             value |->
               [stop |-> [id |-> stop.stop_id, name |-> stop.stop_name,
                          code |-> stop.stop_code,
                          platform |-> stop.platform_code],
                upcomingTrips |->
                   SortAndFilterTrips(IF tripsFeed # Null
                                      THEN ProcessTrips(tripsFeed, stopId)
                                      ELSE <<>>, direction),
                alerts |-> IF alertsFeed # Null
                           THEN ProcessAlerts(alertsFeed, stopId) ELSE <<>>,
                warnings |-> TripsWarnings(tripsFeed, tripsStatus)
                                \o AlertsWarnings(alertsFeed),
                lastUpdated |-> LastUpdated(tripsFeed, tripsStatus)]]

----------------------------------------------------------------------------
\* new GtfsMonitor(), before start()
Constructed ==
    /\ now = 0
    /\ isPolling = FALSE
    /\ timers = <<>>
    /\ feed = [k \in Kinds |-> Null]
    /\ lastUpdate = [k \in Kinds |-> Null]
    /\ error = [k \in Kinds |-> Null]
    /\ stats = [k \in Kinds |-> [updates |-> 0, errors |-> 0]]
    /\ started = [k \in Kinds |-> 0]
    /\ proc = [k \in Kinds |-> [r \in 1..MaxRefresh |-> IdleProc]]
    /\ writer = [k \in Kinds |-> [feed |-> 0, lastUpdate |-> 0, error |-> 0]]
    /\ startCalls = 0

\* new GtfsUpdater(): no update runs, none has completed
NewUpdater == [started |-> FALSE, isUpdating |-> FALSE, lastUpdate |-> Null,
               pc |-> "idle", runs |-> 0, log |-> <<>>,
               calls |-> 0, returned |-> 0, threw |-> 0]

\* the process runs; app.listen() was not called
Alive == [exited |-> FALSE, code |-> 0, listening |-> FALSE]

\* no request handler is between a read and its reply
NoResponse == [pending |-> FALSE]

\* startServer() has called staticDataService.load() before it starts the
\* monitor and before it listens; no request was received yet
Loaded ==
    /\ staticData = Load(StaticFiles)
    /\ response = NoResponse
    /\ disk = DiskOf(StaticFiles)
    /\ updater = NewUpdater
    /\ process = Alive

Init ==
    /\ Constructed
    /\ Loaded
    /\ faults = 0
    /\ upstream = [trips |-> TripsFeedA, alerts |-> AlertsFeedA]

\* (mutant) start() without its guard
NeverPolling == FALSE

\* if (this.isPolling) return;
AlreadyPolling == isPolling

\* the refreshes of the kinds in S begin, each as the next of its kind
Spawn(S) ==
    /\ started' = [k \in Kinds |-> IF k \in S THEN started[k] + 1 ELSE started[k]]
    /\ proc' = [k \in Kinds |->
                  IF k \in S
                  THEN [proc[k] EXCEPT ![started[k] + 1] = NewProc]
                  ELSE proc[k]]

\* start()
StartBody ==
    /\ startCalls' = startCalls + 1
    /\ IF AlreadyPolling
       THEN UNCHANGED <<now, isPolling, timers, feed, lastUpdate, error, stats,
                        started, proc, writer, faults>>
       ELSE /\ \A k \in Kinds : started[k] < Len(proc[k])
            /\ isPolling' = TRUE
            /\ Spawn(Kinds)
            /\ timers' = timers \o <<NewTimer("trips"), NewTimer("alerts")>>
            /\ UNCHANGED <<now, feed, lastUpdate, error, stats, writer, faults>>

\* startServer() calls gtfsMonitor.start(), once
Start ==
    /\ startCalls = 0
    /\ StartBody
    /\ UNCHANGED engineVars

\* a further call of start()
StartAgain ==
    /\ startCalls \in 1..(MaxStarts - 1)
    /\ StartBody
    /\ UNCHANGED engineVars

\* (mutant) the callback of the interval clears the interval when it finds
\* the feed with an error
TimerFireClearsOnError(i) ==
    /\ timers[i].next = now
    /\ started[timers[i].kind] < Len(proc[timers[i].kind])
    /\ IF error[timers[i].kind] # Null
       THEN /\ timers' = SubSeq(timers, 1, i - 1) \o SubSeq(timers, i + 1, Len(timers))
            /\ UNCHANGED <<started, proc>>
       ELSE /\ Spawn({timers[i].kind})
            /\ timers' = [timers EXCEPT ![i].next = @ + Period(timers[i].kind),
                                         ![i].fired = @ + 1]
    /\ UNCHANGED <<now, isPolling, feed, lastUpdate, error, stats, writer,
                   startCalls, faults>>
    /\ UNCHANGED engineVars

\* an interval timer fires: its callback calls updateTrips()/updateAlerts()
TimerFire(i) ==
    /\ timers[i].next = now
    /\ started[timers[i].kind] < Len(proc[timers[i].kind])
    /\ Spawn({timers[i].kind})
    /\ timers' = [timers EXCEPT ![i].next = @ + Period(timers[i].kind),
                                 ![i].fired = @ + 1]
    /\ UNCHANGED <<now, isPolling, feed, lastUpdate, error, stats, writer,
                   startCalls, faults>>
    /\ UNCHANGED engineVars

\* (mutant) the snapshot is replaced and the timestamp is not
OnSuccessKeepsTimestamp(k, payload) ==
    /\ feed' = [feed EXCEPT ![k] = payload]
    /\ error' = [error EXCEPT ![k] = Null]
    /\ stats' = [stats EXCEPT ![k].updates = @ + 1]
    /\ writer' = [writer EXCEPT ![k].feed = payload.refresh,
                                ![k].error = payload.refresh]
    /\ UNCHANGED lastUpdate

\* (mutant) a success that leaves the error of an earlier refresh in place
OnSuccessKeepsError(k, payload) ==
    /\ feed' = [feed EXCEPT ![k] = payload]
    /\ lastUpdate' = [lastUpdate EXCEPT ![k] = Date(now)]
    /\ stats' = [stats EXCEPT ![k].updates = @ + 1]
    /\ writer' = [writer EXCEPT ![k].feed = payload.refresh,
                                ![k].lastUpdate = payload.refresh]
    /\ UNCHANGED error

\* (mutant) a success clears the error only when no refresh of the kind
\* was started after the one that succeeds
OnSuccessOfNewestClearsError(k, payload) ==
    /\ feed' = [feed EXCEPT ![k] = payload]
    /\ lastUpdate' = [lastUpdate EXCEPT ![k] = Date(now)]
    /\ error' = [error EXCEPT ![k] = IF payload.refresh = started[k] THEN Null ELSE @]
    /\ stats' = [stats EXCEPT ![k].updates = @ + 1]
    /\ writer' = [writer EXCEPT ![k] = [feed |-> payload.refresh,
                                        lastUpdate |-> payload.refresh,
                                        error |-> payload.refresh]]

\* updateTrips()/updateAlerts() after fetchFeed returned the feed
OnSuccess(k, payload) ==
    /\ feed' = [feed EXCEPT ![k] = payload]
    /\ lastUpdate' = [lastUpdate EXCEPT ![k] = Date(now)]
    /\ error' = [error EXCEPT ![k] = Null]
    /\ stats' = [stats EXCEPT ![k].updates = @ + 1]
    /\ writer' = [writer EXCEPT ![k] = [feed |-> payload.refresh,
                                        lastUpdate |-> payload.refresh,
                                        error |-> payload.refresh]]

\* (mutant) a failed refresh drops the snapshot it could not renew
OnExhaustedDropsSnapshot(k, e) ==
    /\ error' = [error EXCEPT ![k] = e]
    /\ stats' = [stats EXCEPT ![k].errors = @ + 1]
    /\ feed' = [feed EXCEPT ![k] = Null]
    /\ lastUpdate' = [lastUpdate EXCEPT ![k] = Null]
    /\ writer' = [writer EXCEPT ![k] = [feed |-> 0, lastUpdate |-> 0,
                                        error |-> e.refresh]]

\* (mutant) a failed refresh drops a snapshot that is older than an interval
OnExhaustedDropsOld(k, e) ==
    /\ error' = [error EXCEPT ![k] = e]
    /\ stats' = [stats EXCEPT ![k].errors = @ + 1]
    /\ IF lastUpdate[k] # Null /\ now - lastUpdate[k].time > RefreshInterval
       THEN /\ feed' = [feed EXCEPT ![k] = Null]
            /\ lastUpdate' = [lastUpdate EXCEPT ![k] = Null]
            /\ writer' = [writer EXCEPT ![k] = [feed |-> 0, lastUpdate |-> 0,
                                                error |-> e.refresh]]
       ELSE /\ writer' = [writer EXCEPT ![k].error = e.refresh]
            /\ UNCHANGED <<feed, lastUpdate>>

\* (mutant) the monitor has one error field for both feeds
OnExhaustedSharedError(k, e) ==
    /\ error' = [j \in Kinds |-> e]
    /\ stats' = [stats EXCEPT ![k].errors = @ + 1]
    /\ writer' = [writer EXCEPT ![k].error = e.refresh]
    /\ UNCHANGED <<feed, lastUpdate>>

\* (mutant) a failed refresh keeps the error already recorded
OnExhaustedKeepsFirstError(k, e) ==
    /\ error' = [error EXCEPT ![k] = IF @ = Null THEN e ELSE @]
    /\ stats' = [stats EXCEPT ![k].errors = @ + 1]
    /\ writer' = [writer EXCEPT ![k].error = IF error[k] = Null THEN e.refresh ELSE @]
    /\ UNCHANGED <<feed, lastUpdate>>

\* updateTrips()/updateAlerts(): the catch block, fetchFeed threw e
OnExhausted(k, e) ==
    /\ error' = [error EXCEPT ![k] = e]
    /\ stats' = [stats EXCEPT ![k].errors = @ + 1]
    /\ writer' = [writer EXCEPT ![k].error = e.refresh]
    /\ UNCHANGED <<feed, lastUpdate>>

\* (mutant) every failed attempt is counted as an error of the feed
AttemptFailedCountsEach(k, r, e) ==
    LET p == proc[k][r] IN
    IF IsLastAttempt(p.attempt)
    THEN /\ proc' = [proc EXCEPT ![k][r] = DoneProc("failed")]
         /\ OnExhausted(k, e)
    ELSE /\ proc' = [proc EXCEPT ![k][r] =
                       [p EXCEPT !.pc = "sleep", !.fails = @ + 1, !.due = {},
                                 !.timer = now + Backoff(p.attempt)]]
         /\ stats' = [stats EXCEPT ![k].errors = @ + 1]
         /\ UNCHANGED <<feed, lastUpdate, error, writer>>

\* fetchFeed's catch block for the error e of the running attempt; after
\* the last attempt the loop ends and fetchFeed throws lastError, which is e
AttemptFailed(k, r, e) ==
    LET p == proc[k][r] IN
    IF IsLastAttempt(p.attempt)
    THEN /\ proc' = [proc EXCEPT ![k][r] = DoneProc("failed")]
         /\ OnExhausted(k, e)
    ELSE /\ proc' = [proc EXCEPT ![k][r] =
                       [p EXCEPT !.pc = "sleep", !.fails = @ + 1, !.due = {},
                                 !.timer = now + Backoff(p.attempt)]]
         /\ UNCHANGED <<feed, lastUpdate, error, stats, writer>>

----------------------------------------------------------------------------
(* The upstream.  In a refresh's record, due is the instant at which the    *)
(* upstream delivers what the refresh awaits (the response, then the body), *)
(* {} when it never does.  A request is answered within its instant unless *)
(* the upstream is at fault.                                                *)

\* a late body comes this long after the response headers
SlowBody == RefreshInterval + Timeout

Fault == faults < MaxFaults /\ faults' = faults + 1
NoFault == faults' = faults

\* the upstream stays silent on a request
Hang(k, r) ==
    /\ proc[k][r].pc = "fetch"
    /\ now \in proc[k][r].due
    /\ Fault
    /\ proc' = [proc EXCEPT ![k][r].due = {}]
    /\ UNCHANGED <<now, isPolling, timers, feed, lastUpdate, error, stats,
                   started, writer, startCalls>>
    /\ UNCHANGED engineVars

\* fetch() resolves with a 2xx response: clearTimeout(timeoutId), then the
\* body is awaited (response.arrayBuffer())
ResponseOk(k, r) ==
    /\ proc[k][r].pc = "fetch"
    /\ now \in proc[k][r].due
    /\ \/ /\ NoFault
          /\ proc' = [proc EXCEPT ![k][r].pc = "body", ![k][r].timer = 0]
       \/ /\ Fault
          /\ \E d \in {{now + SlowBody}, {}} :
                proc' = [proc EXCEPT ![k][r].pc = "body", ![k][r].timer = 0,
                                     ![k][r].due = d]
    /\ UNCHANGED <<now, isPolling, timers, feed, lastUpdate, error, stats,
                   started, writer, startCalls>>
    /\ UNCHANGED engineVars

\* fetch() resolves with a non-2xx response: if (!response.ok) throw
ResponseNotOk(k, r) ==
    /\ proc[k][r].pc = "fetch"
    /\ now \in proc[k][r].due
    /\ NoFault
    /\ AttemptFailed(k, r, Err(HttpError, r, proc[k][r].attempt))
    /\ UNCHANGED <<now, isPolling, timers, started, startCalls>>
    /\ UNCHANGED engineVars

\* fetch() rejects with a transport error
FetchRejects(k, r) ==
    /\ proc[k][r].pc = "fetch"
    /\ now \in proc[k][r].due
    /\ Fault
    /\ AttemptFailed(k, r, Err(NetworkError, r, proc[k][r].attempt))
    /\ UNCHANGED <<now, isPolling, timers, started, startCalls>>
    /\ UNCHANGED engineVars

\* the abort timer fires while fetch() is pending: fetch() rejects
Abort(k, r) ==
    /\ proc[k][r].pc = "fetch"
    /\ proc[k][r].timer = now
    /\ NoFault
    /\ AttemptFailed(k, r, Err(AbortError, r, proc[k][r].attempt))
    /\ UNCHANGED <<now, isPolling, timers, started, startCalls>>
    /\ UNCHANGED engineVars

\* the body arrives and decodes: fetchFeed returns the feed
BodyOk(k, r) ==
    /\ proc[k][r].pc = "body"
    /\ now \in proc[k][r].due
    /\ NoFault
    /\ proc' = [proc EXCEPT ![k][r] = DoneProc("ok")]
    /\ OnSuccess(k, Payload(k, r, proc[k][r].issuedAt))
    /\ UNCHANGED <<now, isPolling, timers, started, startCalls>>
    /\ UNCHANGED engineVars

\* the body arrives and FeedMessage.decode throws
BodyFail(k, r) ==
    /\ proc[k][r].pc = "body"
    /\ now \in proc[k][r].due
    /\ Fault
    /\ AttemptFailed(k, r, Err(DecodeError, r, proc[k][r].attempt))
    /\ UNCHANGED <<now, isPolling, timers, started, startCalls>>
    /\ UNCHANGED engineVars

\* the backoff sleep ends: the loop's next iteration arms a new abort timer
\* and issues fetch() again
Wake(k, r) ==
    /\ proc[k][r].pc = "sleep"
    /\ proc[k][r].timer = now
    /\ proc' = [proc EXCEPT ![k][r] =
                  [@ EXCEPT !.pc = "fetch", !.attempt = @ + 1,
                            !.timer = now + Timeout, !.issuedAt = now,
                            !.due = {now}, !.fetches = @ + 1]]
    /\ UNCHANGED <<now, isPolling, timers, feed, lastUpdate, error, stats,
                   started, writer, startCalls, faults>>
    /\ UNCHANGED engineVars

----------------------------------------------------------------------------
(* The clock *)

Running ==
    UNION {{<<k, r>> : r \in {q \in DOMAIN proc[k] :
                                proc[k][q].pc \in {"fetch", "body", "sleep"}}} :
           k \in Kinds}

\* the instants at which something pending is due: an interval timer, an
\* abort or backoff timer, a delivery of the upstream
Deadlines ==
    {timers[i].next : i \in 1..Len(timers)}
    \cup {proc[x[1]][x[2]].timer :
             x \in {y \in Running : proc[y[1]][y[2]].pc \in {"fetch", "sleep"}}}
    \cup UNION {proc[x[1]][x[2]].due : x \in Running}

\* time passes up to the next due instant; what is due runs before time
\* moves on
Advance ==
    /\ Deadlines # {}
    /\ \A d \in Deadlines : d > now
    /\ now' = CHOOSE d \in Deadlines : \A e \in Deadlines : d <= e
    /\ UNCHANGED <<isPolling, timers, feed, lastUpdate, error, stats, started,
                   proc, writer, startCalls, faults>>
    /\ UNCHANGED engineVars

Next ==
    \/ Start
    \/ \E i \in 1..Len(timers) : TimerFire(i)
    \/ \E k \in Kinds, r \in 1..MaxRefresh :
          \/ Hang(k, r)
          \/ ResponseOk(k, r)
          \/ ResponseNotOk(k, r)
          \/ FetchRejects(k, r)
          \/ Abort(k, r)
          \/ BodyOk(k, r)
          \/ BodyFail(k, r)
          \/ Wake(k, r)
    \/ Advance

Spec == Init /\ [][Next]_vars

\* The poller with start() called again at any moment, before an upstream
\* that is never at fault: it answers every request at once, with 200 and a
\* feed or with 503
InitRestart ==
    /\ Constructed
    /\ Loaded
    /\ faults = MaxFaults
    /\ upstream = [trips |-> TripsFeedA, alerts |-> AlertsFeedA]

NextRestart ==
    \/ Start
    \/ StartAgain
    \/ \E i \in 1..Len(timers) : TimerFire(i)
    \/ \E k \in Kinds, r \in 1..MaxRefresh :
          \/ ResponseOk(k, r)
          \/ ResponseNotOk(k, r)
          \/ BodyOk(k, r)
          \/ Wake(k, r)
    \/ Advance

SpecRestart == InitRestart /\ [][NextRestart]_vars

----------------------------------------------------------------------------
(* The request handlers.  A handler calls a read and replies with what it  *)
(* returned; getStopInfo awaits nothing, so the handler that awaits it     *)
(* resumes in a microtask, before any timer or network callback runs.      *)

\* the stop identifiers and the directions of the requests
StopIds == {"M20-2", "ZZZ"}
Directions == {NoDirection, "eastbound", "Westbound", "north"}

\* startServer() calls app.listen() after gtfsMonitor.start(): requests
\* are received once the monitor polls
Listening == isPolling

pollerVars == <<now, isPolling, timers, feed, lastUpdate, error, stats, started,
                proc, writer, startCalls, faults>>

\* (mutant) a request that finds no trip-updates snapshot starts a refresh
GetStopInfoCallFetching(stopId, direction) ==
    /\ Listening
    /\ ~response.pending
    /\ response' = [pending |-> TRUE, op |-> "getStopInfo", stopId |-> stopId,
                    direction |-> direction, at |-> now,
                    result |-> GetStopInfo(stopId, direction)]
    /\ IF feed["trips"] = Null /\ started["trips"] < MaxRefresh
       THEN Spawn({"trips"})
       ELSE UNCHANGED <<started, proc>>
    /\ UNCHANGED <<now, isPolling, timers, feed, lastUpdate, error, stats,
                   writer, startCalls, faults, staticData, upstream, hostVars>>

\* app.get('/station/:stopId'): await transitService.getStopInfo(stopId, direction)
GetStopInfoCall(stopId, direction) ==
    /\ Listening
    /\ ~response.pending
    /\ response' = [pending |-> TRUE, op |-> "getStopInfo", stopId |-> stopId,
                    direction |-> direction, at |-> now,
                    result |-> GetStopInfo(stopId, direction)]
    /\ UNCHANGED <<pollerVars, staticData, upstream, hostVars>>

\* gtfsMonitor.getTrips(), gtfsMonitor.getAlerts()
GetSnapshotCall(k) ==
    /\ Listening
    /\ ~response.pending
    /\ response' = [pending |-> TRUE, op |-> "getSnapshot", kind |-> k,
                    at |-> now, result |-> GetSnapshot(k)]
    /\ UNCHANGED <<pollerVars, staticData, upstream, hostVars>>

\* app.get('/status'): gtfsMonitor.getStatus()
GetStatusCall ==
    /\ Listening
    /\ ~response.pending
    /\ response' = [pending |-> TRUE, op |-> "getStatus", at |-> now,
                    result |-> [trips |-> GetStatus("trips"),
                                alerts |-> GetStatus("alerts"),
                                stats |-> GetStats]]
    /\ UNCHANGED <<pollerVars, staticData, upstream, hostVars>>

\* config.station.id, config.station.direction
StationId == "M20-2"
StationDirection == "eastbound"

\* the result of parseInt
NaN == [nan |-> TRUE, value |-> 0]
Number(n) == [nan |-> FALSE, value |-> n]

\* the value of a string of decimal digits
RECURSIVE DecimalValue(_)
DecimalValue(str) ==
    IF str = "" THEN 0
    ELSE 10 * DecimalValue(SubSeq(str, 1, Len(str) - 1))
            + DigitValue(SubSeq(str, Len(str), Len(str)))

\* parseInt(str) for a string without leading white space; undefined, the
\* parameter that is absent, is "" here: a sign, then the digits up to the
\* first character that is none, NaN when there is no digit
ParseInt(str) ==
    LET signed == str # "" /\ SubSeq(str, 1, 1) \in {"-", "+"}
        body == IF signed THEN SubSeq(str, 2, Len(str)) ELSE str
        isDigit(i) == \E n \in 0..9 : Digit(n) = SubSeq(body, i, i)
        len == CHOOSE n \in 0..Len(body) :
                  /\ \A i \in 1..n : isDigit(i)
                  /\ n < Len(body) => ~isDigit(n + 1)
        value == DecimalValue(SubSeq(body, 1, len))
    IN IF len = 0 THEN NaN
       ELSE Number(IF signed /\ SubSeq(str, 1, 1) = "-" THEN 0 - value ELSE value)

\* parseInt(req.query.limit) || 4
Limit(param) ==
    LET n == ParseInt(param) IN IF n.nan \/ n.value = 0 THEN 4 ELSE n.value

\* Array.prototype.slice(0, end)
Slice(seq, end) ==
    LET to == IF end < 0 THEN Len(seq) + end ELSE end
    IN SubSeq(seq, 1, IF to < 0 THEN 0 ELSE IF to > Len(seq) THEN Len(seq) ELSE to)

\* the last element of str.split(sep)
RECURSIVE LastPart(_, _)
LastPart(str, sep) ==
    LET I == {i \in 1..(Len(str) - Len(sep) + 1) :
                 SubSeq(str, i, i + Len(sep) - 1) = sep}
    IN IF I = {} THEN str
       ELSE LET i == CHOOSE j \in I : \A k \in I : j <= k
            IN LastPart(SubSeq(str, i + Len(sep), Len(str)), sep)

\* (mutant) the destination is what follows the last "/"
DestinationBySlash(headsign) ==
    IF headsign # "" THEN LastPart(headsign, "/") ELSE "Unknown"

\* the destination of an arrival
Destination(headsign) ==
    IF headsign # "" THEN LastPart(headsign, " / ") ELSE "Unknown"

\* the arrival made of a prediction
Arrival(trip) ==
    LET arrival == [destination |-> Destination(trip.headsign),
                    minutesUntilArrival |-> trip.minutesUntilArrival,
                    status |-> IF trip.minutesUntilArrival <= 1
                               THEN "arriving" ELSE "scheduled"]
    IN IF "vehicleLabel" \in DOMAIN trip
       THEN arrival @@ [vehicle |-> trip.vehicleLabel]
       ELSE arrival

\* stopInfo.upcomingTrips.slice(0, limit).map(...)
NextArrivals(upcomingTrips, limit) ==
    LET kept == Slice(upcomingTrips, limit)
    IN [i \in 1..Len(kept) |-> Arrival(kept[i])]

\* app.get('/next') with the parameters stop, direction and limit of the
\* query, "" for one that is absent
NextCall(stop, direction, limit) ==
    LET stopId == IF stop # "" THEN stop ELSE StationId
        dir == IF direction # "" THEN direction ELSE StationDirection
        stopInfo == GetStopInfo(stopId, dir)
    IN /\ Listening
       /\ ~response.pending
       /\ response' = [pending |-> TRUE, op |-> "next", stopId |-> stopId,
                       direction |-> dir, limit |-> limit, at |-> now,
                       result |-> stopInfo,
                       nextArrivals |->
                          IF stopInfo.threw THEN <<>>
                          ELSE NextArrivals(stopInfo.value.upcomingTrips,
                                            Limit(limit))]
       /\ UNCHANGED <<pollerVars, staticData, upstream, hostVars>>

\* res.json(...), or res.status(...).json({ error: error.message })
Respond ==
    /\ response.pending
    /\ response' = NoResponse
    /\ UNCHANGED <<pollerVars, staticData, upstream, hostVars>>

\* The server: the poller before an upstream that is never at fault and
\* serves any of the feeds, and the requests
InitService ==
    /\ Constructed
    /\ Loaded
    /\ faults = MaxFaults
    /\ upstream \in Upstreams

NextService ==
    \/ ~response.pending /\ Start
    \/ \E i \in 1..Len(timers) : ~response.pending /\ TimerFire(i)
    \/ \E k \in Kinds, r \in 1..MaxRefresh :
          \/ ~response.pending /\ ResponseOk(k, r)
          \/ ~response.pending /\ ResponseNotOk(k, r)
          \/ ~response.pending /\ BodyOk(k, r)
          \/ ~response.pending /\ Wake(k, r)
    \/ ~response.pending /\ Advance
    \/ \E stopId \in StopIds, direction \in Directions :
          GetStopInfoCall(stopId, direction)
    \/ \E k \in Kinds : GetSnapshotCall(k)
    \/ GetStatusCall
    \/ Respond

SpecService == InitService /\ [][NextService]_vars

----------------------------------------------------------------------------
(* The server through an outage of the upstream.  The upstream answers     *)
(* every request at once: with 503 from an instant on and until another,   *)
(* with 200 and its feed before and after.  The poller is followed over    *)
(* more refreshes than above, which this costs little as the upstream's    *)
(* answers are determined by the clock; requests come at any instant, also *)
(* between two due instants of the poller.                                 *)

\* the refreshes of a kind that are followed through an outage
MaxAging == 5

\* no end of the outage is in sight
Forever == 1000000000

\* the outages: from the start and over the first two refreshes of the
\* trips feed; after the first refresh and for good; from the start and for
\* good
Outages == {[from |-> 0, to |-> 2 * RefreshInterval],
            [from |-> 1, to |-> Forever],
            [from |-> 0, to |-> Forever]}

\* the upstream answers 200 at this instant
Up == ~(upstream.down.from <= now /\ now < upstream.down.to)

\* the limit parameters of the requests for the next arrivals
Limits == {"", "0", "2", "7", "-1"}

\* the time between two instants at which requests come, in ms
Passes == {400, 500}

\* time passes, by less than a second and not up to the next due instant
Pass(d) ==
    /\ \A e \in Deadlines : e > now + d
    /\ (now % 1000) + d < 1000
    /\ now' = now + d
    /\ UNCHANGED <<isPolling, timers, feed, lastUpdate, error, stats, started,
                   proc, writer, startCalls, faults>>
    /\ UNCHANGED engineVars

InitOutage ==
    /\ now = 0
    /\ isPolling = FALSE
    /\ timers = <<>>
    /\ feed = [k \in Kinds |-> Null]
    /\ lastUpdate = [k \in Kinds |-> Null]
    /\ error = [k \in Kinds |-> Null]
    /\ stats = [k \in Kinds |-> [updates |-> 0, errors |-> 0]]
    /\ started = [k \in Kinds |-> 0]
    /\ proc = [k \in Kinds |-> [r \in 1..MaxAging |-> IdleProc]]
    /\ writer = [k \in Kinds |-> [feed |-> 0, lastUpdate |-> 0, error |-> 0]]
    /\ startCalls = 0
    /\ Loaded
    /\ faults = MaxFaults
    /\ \E o \in Outages :
          upstream = [trips |-> TripsFeedA, alerts |-> AlertsFeedA, down |-> o]

\* a step of the poller: a callback of the event loop that is due, or the
\* clock reaching the next due instant
PollerStep ==
    \/ ~response.pending /\ Start
    \/ \E i \in 1..Len(timers) : ~response.pending /\ TimerFire(i)
    \/ \E k \in Kinds, r \in 1..MaxAging :
          \/ ~response.pending /\ Up /\ ResponseOk(k, r)
          \/ ~response.pending /\ ~Up /\ ResponseNotOk(k, r)
          \/ ~response.pending /\ BodyOk(k, r)
          \/ ~response.pending /\ Wake(k, r)
    \/ ~response.pending /\ Advance

NextOutage ==
    \/ PollerStep
    \/ \E d \in Passes : ~response.pending /\ Pass(d)
    \/ \E direction \in {NoDirection, "north"} : GetStopInfoCall("M20-2", direction)
    \/ \E direction \in {"", "north"}, limit \in Limits : NextCall("", direction, limit)
    \/ Respond

SpecOutage == InitOutage /\ [][NextOutage]_vars

\* The poller and the requests for a stop through an outage, with what the
\* event loop and the clock guarantee: a callback that is due runs, the
\* clock reaches the next due instant, a handler that has its result
\* replies.  A request delays a step of the poller but only until its
\* reply, so the steps of the poller are taken again and again.
NextOutageFair ==
    \/ PollerStep
    \/ GetStopInfoCall("M20-2", NoDirection)
    \/ Respond

SpecOutageFair ==
    /\ InitOutage
    /\ [][NextOutageFair]_vars
    /\ SF_vars(PollerStep)
    /\ WF_vars(Respond)

----------------------------------------------------------------------------
(* The dataset updater and the start of the server.  checkForUpdates()    *)
(* awaits the resolution of the download location, then the download; what *)
(* follows the download (_processUpdate, the catch and finally blocks)     *)
(* awaits nothing that a timer or the network completes, so it is one step. *)
(* The clock is not followed here: the interval of the updater is a day.   *)

\* calls of checkForUpdates() that begin an update
MaxUpdates == 2

\* calls of checkForUpdates(), with those made while an update runs
MaxCalls == 3

\* the dataset of a later publication: stop A10-1, routes 2 and 6 and the
\* trips 1002 to 1005 are gone, stop B10-1, route 7 and trip 2001 are new,
\* stop M20-2, route 1 and trip 1001 are changed
NewStopsFile ==
    << [stop_id |-> "M20-2", stop_name |-> "Montgomery Street", stop_code |-> "MONT",
        platform_code |-> "2"],
       [stop_id |-> "B10-1", stop_name |-> "Rockridge", stop_code |-> "ROCK",
        platform_code |-> "1"] >>

NewRoutesFile ==
    << [route_id |-> "1", route_short_name |-> "Yellow-S",
        route_long_name |-> "Antioch to SFO", route_color |-> "FFFF33",
        route_text_color |-> "000000"],
       [route_id |-> "7", route_short_name |-> "Red-N",
        route_long_name |-> "Millbrae to Richmond", route_color |-> "FF0000",
        route_text_color |-> "FFFFFF"] >>

NewTripsFile ==
    << [trip_id |-> "1001", route_id |-> "1", trip_headsign |-> "Antioch",
        direction_id |-> "0"],
       [trip_id |-> "2001", route_id |-> "7", trip_headsign |-> "Richmond",
        direction_id |-> "0"] >>

NewStopTimesFile ==
    << [trip_id |-> "2001", stop_id |-> "M20-2", stop_sequence |-> "1"],
       [trip_id |-> "2001", stop_id |-> "B10-1", stop_sequence |-> "2"] >>

\* an entry of an archive; one that the archive lacks; one that parse rejects
Entry(rows) == [present |-> TRUE, readable |-> TRUE, rows |-> rows]
NoEntry == [present |-> FALSE, readable |-> FALSE, rows |-> <<>>]
BadEntry == [present |-> TRUE, readable |-> FALSE, rows |-> <<>>]

\* no archive was downloaded
NoArchive == [corrupt |-> FALSE, stops |-> NoEntry, routes |-> NoEntry,
              trips |-> NoEntry, stopTimes |-> NoEntry]

FullArchive == [corrupt |-> FALSE, stops |-> Entry(NewStopsFile),
                routes |-> Entry(NewRoutesFile), trips |-> Entry(NewTripsFile),
                stopTimes |-> Entry(NewStopTimesFile)]

\* the archives the download may deliver: the whole dataset; its stops and
\* trips only; one without stops, one without trips; one that is no zip
\* archive; for each file, one in which parse rejects that file
Archives ==
    {FullArchive,
     [FullArchive EXCEPT !.routes = NoEntry, !.stopTimes = NoEntry],
     [FullArchive EXCEPT !.stops = NoEntry],
     [FullArchive EXCEPT !.trips = NoEntry],
     [FullArchive EXCEPT !.corrupt = TRUE]}
    \cup {[FullArchive EXCEPT ![FileOrder[i]] = BadEntry] : i \in 1..Len(FileOrder)}

\* new AdmZip(buffer) succeeds and zip.getEntry finds trips.txt and stops.txt
Validates(zip) == ~zip.corrupt /\ zip.trips.present /\ zip.stops.present

\* zip.extractAllTo(config.paths.staticData, true): every entry of the
\* archive is written over the file of its name, the other files stay
ExtractAllTo(dir, zip) ==
    [f \in DOMAIN dir |->
        IF zip[f].present THEN [readable |-> zip[f].readable, rows |-> zip[f].rows]
        ELSE dir[f]]

\* (mutant) the flag is reset at the end of the try block, not in a
\* finally block
UpdateFailedKeepsFlag(steps) ==
    updater' = [updater EXCEPT !.pc = "idle", !.returned = @ + 1,
                               !.log = @ \o steps \o <<"catch">>]

\* the catch and finally blocks of checkForUpdates(): the error is logged,
\* the flag is reset, the promise of the call is fulfilled
UpdateFailed(steps) ==
    updater' = [updater EXCEPT !.isUpdating = FALSE, !.pc = "idle",
                               !.returned = @ + 1,
                               !.log = @ \o steps \o <<"catch">>]

\* (mutant) the archive is extracted before it is validated
ProcessUpdateExtractsFirst(zip) ==
    IF zip.corrupt
    THEN /\ UpdateFailed(<<"validate">>)
         /\ UNCHANGED <<disk, staticData>>
    ELSE /\ disk' = ExtractAllTo(disk, zip)
         /\ IF ~Validates(zip)
            THEN /\ UpdateFailed(<<"replace", "validate">>)
                 /\ UNCHANGED staticData
            ELSE LET r == Reload(staticData, disk')
                 IN /\ staticData' = r.index
                    /\ IF r.threw
                       THEN UpdateFailed(<<"replace", "validate", "reload">>)
                       ELSE updater' = [updater EXCEPT
                                          !.isUpdating = FALSE, !.pc = "idle",
                                          !.lastUpdate = Date(now),
                                          !.returned = @ + 1,
                                          !.log = @ \o <<"replace", "validate",
                                                         "reload", "done">>]

\* _processUpdate(zipBuffer) and what follows it in checkForUpdates()
ProcessUpdate(zip) ==
    IF ~Validates(zip)
    THEN /\ UpdateFailed(<<"validate">>)
         /\ UNCHANGED <<disk, staticData>>
    ELSE /\ disk' = ExtractAllTo(disk, zip)
         /\ LET r == Reload(staticData, disk')
            IN /\ staticData' = r.index
               /\ IF r.threw
                  THEN UpdateFailed(<<"validate", "replace", "reload">>)
                  ELSE updater' = [updater EXCEPT
                                     !.isUpdating = FALSE, !.pc = "idle",
                                     !.lastUpdate = Date(now),
                                     !.returned = @ + 1,
                                     !.log = @ \o <<"validate", "replace",
                                                    "reload", "done">>]

\* checkForUpdates() up to its first await
CheckForUpdates ==
    /\ updater.calls < MaxCalls
    /\ IF updater.isUpdating
       THEN updater' = [updater EXCEPT !.calls = @ + 1, !.returned = @ + 1]
       ELSE /\ updater.runs < MaxUpdates
            /\ updater' = [updater EXCEPT !.isUpdating = TRUE, !.pc = "resolve",
                                          !.calls = @ + 1, !.runs = @ + 1,
                                          !.log = <<"resolve">>]
    /\ UNCHANGED <<pollerVars, staticData, upstream, response, disk, process>>

\* the callback of the interval set by gtfsUpdater.start()
DailyCheck ==
    /\ updater.started
    /\ CheckForUpdates

\* app.post('/update')
UpdateCall ==
    /\ Listening
    /\ CheckForUpdates

\* _resolveDownloadUrl() settles: with a location, with none (null), or
\* with the error of fetch() or response.text()
ResolveDone(outcome) ==
    /\ updater.pc = "resolve"
    /\ IF outcome = "location"
       THEN updater' = [updater EXCEPT !.pc = "download", !.log = @ \o <<"download">>]
       ELSE UpdateFailed(<<>>)
    /\ UNCHANGED <<pollerVars, staticData, upstream, response, disk, process>>

\* _downloadFile() throws: the response is not ok, or fetch() rejects
DownloadFails ==
    /\ updater.pc = "download"
    /\ UpdateFailed(<<>>)
    /\ UNCHANGED <<pollerVars, staticData, upstream, response, disk, process>>

\* _downloadFile() returns the archive; _processUpdate() follows
DownloadDone(zip) ==
    /\ updater.pc = "download"
    /\ ProcessUpdate(zip)
    /\ UNCHANGED <<pollerVars, upstream, response, process>>

\* the directories the server may be started on: the dataset, or the
\* dataset with one file missing or malformed
StartDirs ==
    {DiskOf(StaticFiles)}
    \cup {[DiskOf(StaticFiles) EXCEPT ![FileOrder[i]] = Unreadable] :
             i \in 1..Len(FileOrder)}

\* (mutant) a failed load is logged and the start goes on
StartServerDespiteLoad ==
    /\ ~process.exited
    /\ ~process.listening
    /\ staticData' = LoadFrom(staticData, disk).index
    /\ startCalls = 0
    /\ StartBody
    /\ updater' = [updater EXCEPT !.started = TRUE]
    /\ process' = [process EXCEPT !.listening = TRUE]
    /\ UNCHANGED <<upstream, response, disk>>

\* startServer()
StartServer ==
    /\ ~process.exited
    /\ ~process.listening
    /\ LET l == LoadFrom(staticData, disk)
       IN /\ staticData' = l.index
          /\ IF l.threw
             THEN /\ process' = [process EXCEPT !.exited = TRUE, !.code = 1]
                  /\ UNCHANGED <<pollerVars, updater>>
             ELSE /\ startCalls = 0
                  /\ StartBody
                  /\ updater' = [updater EXCEPT !.started = TRUE]
                  /\ process' = [process EXCEPT !.listening = TRUE]
    /\ UNCHANGED <<upstream, response, disk>>

\* the services constructed, startServer() not yet called
InitHost ==
    /\ Constructed
    /\ staticData = EmptyIndex
    /\ response = NoResponse
    /\ disk \in StartDirs
    /\ updater = NewUpdater
    /\ process = Alive
    /\ faults = MaxFaults
    /\ upstream = [trips |-> TripsFeedA, alerts |-> AlertsFeedA]

\* the stop identifiers of the requests: of both datasets, and of none
HostStopIds == {"M20-2", "A10-1", "B10-1", "ZZZ"}

\* The server from its start, with the first refresh of each feed before an
\* upstream that answers at once with its feed, the updates of the dataset
\* and the requests
NextHost ==
    \/ StartServer
    \/ \E k \in Kinds :
          \/ ~response.pending /\ ResponseOk(k, 1)
          \/ ~response.pending /\ BodyOk(k, 1)
    \/ ~response.pending /\ DailyCheck
    \/ ~response.pending /\ UpdateCall
    \/ \E outcome \in {"location", "none", "rejects"} :
          ~response.pending /\ ResolveDone(outcome)
    \/ ~response.pending /\ DownloadFails
    \/ \E zip \in Archives : ~response.pending /\ DownloadDone(zip)
    \/ \E stopId \in HostStopIds : GetStopInfoCall(stopId, NoDirection)
    \/ Respond

SpecHost == InitHost /\ [][NextHost]_vars

----------------------------------------------------------------------------
(* Properties of the poller *)

Refreshes == Kinds \X (1..MaxRefresh)

\* this step completes refresh r of kind k with success
Succeeded(k, r) == proc[k][r].pc # "ok" /\ proc'[k][r].pc = "ok"

\* this step completes refresh r of kind k with its retries exhausted
Exhausted(k, r) == proc[k][r].pc # "failed" /\ proc'[k][r].pc = "failed"

\* the interval timers of kind k, by their place in timers
TimersOf(k) == {i \in 1..Len(timers) : timers[i].kind = k}

\* the firings so far of the interval timers of kind k
Fired(k) == IF TimersOf(k) = {} THEN 0
            ELSE timers[CHOOSE i \in TimersOf(k) : TRUE].fired

\* C1: a step that is not the success of a refresh of kind k leaves the
\* snapshot of k, its capture timestamp and what getSnapshot(k) returns
\* unchanged; so does, in particular, every refresh that exhausts its retries
\* after a success, however many of them follow.
C1_ExhaustedKeepsSnapshot ==
    [][\A k \in Kinds :
          (\A r \in 1..MaxRefresh : ~Succeeded(k, r))
             => /\ feed'[k] = feed[k]
                /\ lastUpdate'[k] = lastUpdate[k]
                /\ GetSnapshot(k)' = GetSnapshot(k)]_vars

\* the first trips refresh succeeded, the second and the third exhausted
\* their retries, and the snapshot of the first is still served
C1_Witness ==
    /\ proc["trips"][1].pc = "ok"
    /\ proc["trips"][2].pc = "failed"
    /\ proc["trips"][3].pc = "failed"
    /\ GetSnapshot("trips") # Null
    /\ GetSnapshot("trips").refresh = 1
    /\ stats["trips"].errors = 2

\* C2: in every state a reader can observe, the snapshot of a kind and its
\* lastUpdate were assigned by the same successful refresh, the timestamp is
\* not older than the request that produced the snapshot, and lastUpdate is
\* non-null exactly when a snapshot is present.
C2_SnapshotAndTimestampTogether ==
    \A k \in Kinds :
       /\ (GetSnapshot(k) # Null) <=> (GetStatus(k).lastUpdate # Null)
       /\ GetStatus(k).hasData <=> (GetStatus(k).lastUpdate # Null)
       /\ writer[k].feed = writer[k].lastUpdate
       /\ GetSnapshot(k) # Null
             => /\ GetSnapshot(k).refresh = writer[k].feed
                /\ GetSnapshot(k).refresh \in 1..started[k]
                /\ GetStatus(k).lastUpdate.time >= GetSnapshot(k).issued
                /\ GetStatus(k).lastUpdate.time <= now

\* a second snapshot replaced the first while another refresh of the kind is
\* still running
C2_Witness ==
    \E k \in Kinds :
       /\ stats[k].updates >= 2
       /\ feed[k] # Null
       /\ \E r \in 1..MaxRefresh : proc[k][r].pc \in {"fetch", "body", "sleep"}

\* C3: the step in which a refresh succeeds leaves, in the slot of its kind,
\* the payload it decoded as the snapshot, a null error, the instant of the
\* step as the capture timestamp, the success counter grown by exactly 1 and
\* the error counter unchanged.
C3_SuccessWritesSlot ==
    [][\A x \in Refreshes :
          LET k == x[1]
              r == x[2]
          IN Succeeded(k, r)
                => /\ feed'[k] = Payload(k, r, proc[k][r].issuedAt)
                   /\ GetSnapshot(k)' = feed'[k]
                   /\ error'[k] = Null
                   /\ GetStatus(k)'.error = Null
                   /\ now' = now
                   /\ lastUpdate'[k] = Date(now)
                   /\ stats'[k].updates = stats[k].updates + 1
                   /\ stats'[k].errors = stats[k].errors]_vars

\* a refresh has just succeeded after an exhausted one: the error is cleared
C3_Witness ==
    \E k \in Kinds :
       /\ stats[k].errors >= 1
       /\ stats[k].updates >= 1
       /\ error[k] = Null
       /\ lastUpdate[k] = Date(now)

\* C4: the step in which a refresh exhausts its retries is the failure of
\* its third attempt after two failed ones; it grows the error counter of
\* the kind by exactly 1, leaves the success counter unchanged and makes
\* getStatus report the message of that third attempt's error.  No other
\* step changes the error counter.
C4_ExhaustionCountsOnce ==
    [][/\ \A x \in Refreshes :
             LET k == x[1]
                 r == x[2]
             IN Exhausted(k, r)
                   => /\ proc[k][r].fails = 2
                      /\ proc[k][r].attempt = 3
                      /\ stats'[k].errors = stats[k].errors + 1
                      /\ stats'[k].updates = stats[k].updates
                      /\ error'[k].refresh = r
                      /\ error'[k].attempt = 3
                      /\ GetStatus(k)'.error = error'[k].message
                      /\ GetStatus(k)'.error
                            \in {HttpError, NetworkError, AbortError, DecodeError}
       /\ \A k \in Kinds :
             stats'[k].errors # stats[k].errors
                => \E r \in 1..MaxRefresh : Exhausted(k, r)]_vars

\* three answers of 503 exhausted a refresh while an earlier snapshot is held
C4_Witness ==
    \E k \in Kinds :
       /\ stats[k].errors = 1
       /\ GetStatus(k).hasData
       /\ error[k] # Null
       /\ GetStatus(k).error = HttpError

\* C5: a running refresh is in attempt 1, 2 or 3, has issued one request per
\* attempt and has seen all its earlier attempts fail; a failure, whatever
\* its cause, raises the count of failed attempts by one and is followed by
\* a wait and a new request when attempts remain; a refresh succeeds in its
\* first attempt that does not fail, and exhausts only in the failure of its
\* third attempt.
C5_AttemptBudget ==
    /\ [](\A x \in Refreshes :
             LET p == proc[x[1]][x[2]]
             IN /\ p.pc \in {"fetch", "body"}
                      => /\ p.attempt \in 1..3
                         /\ p.fetches = p.attempt
                         /\ p.fails = p.attempt - 1
                /\ p.pc = "sleep"
                      => /\ p.attempt \in 1..2
                         /\ p.fetches = p.attempt
                         /\ p.fails = p.attempt)
    /\ [][\A x \in Refreshes :
             LET k == x[1]
                 r == x[2]
                 p == proc[k][r]
                 q == proc'[k][r]
             IN /\ Succeeded(k, r)
                      => p.pc = "body" /\ p.fetches \in 1..3
                                       /\ p.fails = p.fetches - 1
                /\ Exhausted(k, r)
                      => p.pc \in {"fetch", "body"} /\ p.fetches = 3
                                                    /\ p.fails = 2
                /\ (p.pc \in {"fetch", "body"} /\ q.pc \notin {"fetch", "body"})
                      => \/ Succeeded(k, r)
                         \/ Exhausted(k, r)
                         \/ q.pc = "sleep" /\ q.fails = p.fails + 1
                                           /\ q.fetches = p.fetches
                /\ (p.pc = "sleep" /\ q.pc # "sleep")
                      => q.pc = "fetch" /\ q.fetches = p.fetches + 1
                                        /\ q.fails = p.fails
                /\ p.pc \in {"ok", "failed"} => q = p]_vars

\* a refresh was exhausted by a timeout in its third attempt
C5_Witness ==
    \E k \in Kinds :
       /\ proc[k][1].pc = "failed"
       /\ error[k].refresh = 1
       /\ error[k].message = AbortError

\* C6: every attempt ends within the fixed timeout: no request of a running
\* refresh is older than Timeout.
C6_AttemptEndsWithinTimeout ==
    \A x \in Refreshes :
       proc[x[1]][x[2]].pc \in {"fetch", "body"}
          => now - proc[x[1]][x[2]].issuedAt <= Timeout

\* C7: the wait that begins with the failure of attempt 1 is 1000 ms and the
\* one that begins with the failure of attempt 2 is 2000 ms (the formula
\* gives 4000 ms for attempt 3); the failure of attempt 3 begins no wait but
\* ends the refresh in the same step; the next attempt is issued only when
\* the wait has elapsed.
C7_BackoffWaits ==
    /\ [](Backoff(1) = 1000 /\ Backoff(2) = 2000 /\ Backoff(3) = 4000)
    /\ [][\A x \in Refreshes :
             LET k == x[1]
                 r == x[2]
                 p == proc[k][r]
                 q == proc'[k][r]
             IN /\ (p.pc # "sleep" /\ q.pc = "sleep")
                      => /\ p.attempt \in {1, 2}
                         /\ now' = now
                         /\ q.timer - now = IF p.attempt = 1 THEN 1000 ELSE 2000
                /\ (p.pc = "sleep" /\ q.pc # "sleep")
                      => /\ q.pc = "fetch"
                         /\ q.attempt = p.attempt + 1
                         /\ now >= p.timer
                         /\ q.issuedAt = now
                /\ p.pc = "sleep" => q.pc \in {"sleep", "fetch"} /\ now' <= p.timer
                /\ (p.pc \in {"fetch", "body"} /\ p.attempt = 3)
                      => q.pc # "sleep"]_vars

\* the third attempt is issued 1000 ms + 2000 ms after two failures at once
C7_Witness ==
    \E x \in Refreshes :
       /\ proc[x[1]][x[2]].pc = "fetch"
       /\ proc[x[1]][x[2]].attempt = 3
       /\ proc[x[1]][x[2]].issuedAt = now
       /\ now = 3000

\* C8: after any number of calls of start() there is exactly one interval
\* timer per kind and exactly one refresh per kind that no timer triggered;
\* a call after the first changes nothing.
C8_StartIdempotent ==
    /\ [](startCalls >= 1
             => /\ isPolling
                /\ \A k \in Kinds :
                      /\ Cardinality(TimersOf(k)) = 1
                      /\ started[k] = 1 + Fired(k))
    /\ [][(startCalls >= 1 /\ startCalls' # startCalls)
             => UNCHANGED <<now, isPolling, timers, feed, lastUpdate, error,
                            stats, started, proc, writer, faults>>]_vars

\* start() was called again after timers had fired
C8_Witness ==
    /\ startCalls >= 2
    /\ Fired("trips") >= 1

\* C9: the call of start() issues the first request of both kinds in its own
\* step; the n-th firing of the trip-updates timer comes n * T after it and
\* the n-th firing of the alerts timer n * 2T after it, each beginning a
\* refresh of its kind at that instant; when no timer is due, the
\* trip-updates timer has fired twice per firing of the alerts timer, or
\* once more.
C9_PollingCadence ==
    /\ [](isPolling
             => /\ \A i \in 1..Len(timers) :
                      timers[i].next = (timers[i].fired + 1) *
                         (IF timers[i].kind = "trips" THEN RefreshInterval
                                                      ELSE 2 * RefreshInterval)
                /\ \A k \in Kinds : started[k] = 1 + Fired(k)
                /\ (\A i \in 1..Len(timers) : timers[i].next > now)
                      => Fired("trips") \in {2 * Fired("alerts"),
                                             2 * Fired("alerts") + 1})
    /\ [][/\ (~isPolling /\ isPolling')
             => \A k \in Kinds :
                   /\ started'[k] = 1
                   /\ proc'[k][1].pc = "fetch"
                   /\ proc'[k][1].issuedAt = now
                   /\ now' = now
                   /\ Fired(k)' = 0
          /\ \A k \in Kinds :
                Fired(k)' # Fired(k)
                   => /\ Fired(k)' = Fired(k) + 1
                      /\ now = Fired(k)' * (IF k = "trips" THEN RefreshInterval
                                                           ELSE 2 * RefreshInterval)
                      /\ started'[k] = started[k] + 1
                      /\ proc'[k][started'[k]].pc = "fetch"
                      /\ proc'[k][started'[k]].issuedAt = now]_vars

\* at 2T the trip-updates timer has fired twice and the alerts timer once
C9_Witness ==
    /\ Fired("trips") = 2
    /\ Fired("alerts") = 1
    /\ now = 2 * RefreshInterval

\* C10: a non-null error of a kind stays non-null through every step that is
\* not the success of a refresh of that kind; it is null right after such a
\* success; an exhausted refresh puts its own terminal error in its place;
\* no other step changes it.
C10_ErrorUntilSuccess ==
    [][\A k \in Kinds :
          /\ (error[k] # Null /\ \A r \in 1..MaxRefresh : ~Succeeded(k, r))
                => error'[k] # Null /\ GetStatus(k)'.error = error'[k].message
          /\ \A r \in 1..MaxRefresh :
                /\ Succeeded(k, r)
                      => error'[k] = Null /\ GetStatus(k)'.error = Null
                /\ Exhausted(k, r)
                      => error'[k].refresh = r /\ error'[k].attempt = Retries
          /\ error'[k] # error[k]
                => \E r \in 1..MaxRefresh : Succeeded(k, r) \/ Exhausted(k, r)]_vars

\* two refreshes exhausted, the second replacing the error of the first, and
\* the third has just succeeded
C10_Witness ==
    /\ proc["trips"][1].pc = "failed"
    /\ proc["trips"][2].pc = "failed"
    /\ proc["trips"][3].pc = "ok"
    /\ error["trips"] = Null

\* the refreshes of kind k that are in progress
RunningOf(k) == {r \in 1..MaxRefresh : proc[k][r].pc \in {"fetch", "body", "sleep"}}

\* C11: a refresh writes the slot of its kind in the single step of its
\* completion, also while other refreshes of the kind are in progress, and no
\* step completes two refreshes of a kind; the error of the slot is the one
\* left by the refresh that completed last: null iff that refresh succeeded,
\* non-null and its own iff it failed, whether it was started before or after
\* the refreshes it overlapped.
C11_LastCompletedWins ==
    /\ [](\A k \in Kinds :
             /\ writer[k].error = 0 => error[k] = Null
             /\ writer[k].error # 0
                   => /\ error[k] = Null <=> proc[k][writer[k].error].pc = "ok"
                      /\ error[k] # Null <=> proc[k][writer[k].error].pc = "failed"
                      /\ error[k] # Null => error[k].refresh = writer[k].error)
    /\ [][\A k \in Kinds :
             /\ Cardinality({r \in 1..MaxRefresh :
                               Succeeded(k, r) \/ Exhausted(k, r)}) <= 1
             /\ \A r \in 1..MaxRefresh :
                   (Succeeded(k, r) \/ Exhausted(k, r))
                      => /\ writer'[k].error = r
                         /\ error'[k] = Null <=> Succeeded(k, r)
                         /\ RunningOf(k)' = RunningOf(k) \ {r}
             /\ (\A r \in 1..MaxRefresh : ~Succeeded(k, r) /\ ~Exhausted(k, r))
                   => /\ writer'[k] = writer[k]
                      /\ feed'[k] = feed[k]
                      /\ lastUpdate'[k] = lastUpdate[k]
                      /\ error'[k] = error[k]
                      /\ stats'[k] = stats[k]]_vars

\* the first trips refresh outlasted the polling interval: the second one
\* began and exhausted its retries meanwhile, then the first succeeded and
\* left the slot healthy
C11_Witness ==
    /\ proc["trips"][1].pc = "ok"
    /\ proc["trips"][2].pc = "failed"
    /\ writer["trips"].error = 1
    /\ error["trips"] = Null
    /\ stats["trips"].errors = 1
    /\ lastUpdate["trips"] = Date(RefreshInterval + Timeout)
    /\ feed["trips"].issued = 0

\* C29: once getSnapshot(kind) has returned a snapshot, it returns one and
\* hasData is true after every later step, whether refreshes succeed or are
\* exhausted, one after another or at the same time
C29_PresenceMonotonic ==
    [][\A k \in Kinds :
          GetSnapshot(k) # Null
             => /\ GetSnapshot(k)' # Null
                /\ GetStatus(k)'.hasData
                /\ lastUpdate'[k] # Null]_vars

\* the snapshot is held after two refreshes of the kind were exhausted
\* since it was stored, the later of them while another one ran
C29_Witness ==
    \E k \in Kinds :
       /\ GetSnapshot(k) # Null
       /\ GetStatus(k).hasData
       /\ stats[k].updates >= 1
       /\ stats[k].errors >= 1
       /\ error[k] # Null
       /\ now - lastUpdate[k].time > RefreshInterval

\* what the monitor holds for kind k
SlotOf(k) == <<feed[k], lastUpdate[k], error[k], stats[k], writer[k]>>

\* C31: a step of a refresh of one kind, whether the refresh goes on,
\* succeeds or is exhausted, leaves the snapshot, the timestamp, the error
\* and the counters of the other kind as they are, however the refreshes of
\* the two kinds interleave
C31_KindsIndependent ==
    [][\A k \in Kinds : \A r \in 1..MaxRefresh :
          (proc'[k][r] # proc[k][r] \/ Succeeded(k, r) \/ Exhausted(k, r))
             => \A j \in Kinds \ {k} : SlotOf(j)' = SlotOf(j)]_vars

\* a trips refresh has succeeded and a later one was exhausted while a
\* refresh of alerts runs, and the alerts slot is as its first refresh left
\* it
C31_Witness ==
    /\ stats["trips"] = [updates |-> 1, errors |-> 1]
    /\ error["trips"] # Null
    /\ \E r \in 1..MaxRefresh : proc["alerts"][r].pc \in {"fetch", "body", "sleep"}
    /\ GetSnapshot("alerts") # Null
    /\ lastUpdate["alerts"] = Date(0)
    /\ error["alerts"] = Null
    /\ stats["alerts"] = [updates |-> 1, errors |-> 0]

\* C30: a snapshot in the slot is never replaced by a payload whose request
\* was issued before the request of the snapshot that is held
C30_FreshnessNeverGoesBack ==
    [][\A k \in Kinds :
          (GetSnapshot(k) # Null /\ GetSnapshot(k)' # Null)
             => GetSnapshot(k)'.issued >= GetSnapshot(k).issued]_vars

----------------------------------------------------------------------------
(* Properties of the reads and of the aggregation engine.  While a handler *)
(* holds a response the state is the one its read saw.                      *)

\* a handler holds what getStopInfo returned or threw
StopInfoCalled == response.pending /\ response.op = "getStopInfo"

\* a handler holds the StopInfo that getStopInfo returned
StopInfoReturned == StopInfoCalled /\ ~response.result.threw

\* the stop of the request is in the Static Index
KnownStop == response.stopId \in DOMAIN staticData.stops

\* C12: a step in which getSnapshot, getStatus or getStopInfo is called
\* leaves both feed slots (snapshot, timestamp, error), the four counters,
\* the refreshes and their progress, the timers and the Static Index as they
\* were, and a second read would return the same.
C12_ReadsChangeNothing ==
    [][(~response.pending /\ response'.pending)
          => /\ response'.op \in {"getSnapshot", "getStatus", "getStopInfo"}
             /\ feed' = feed
             /\ lastUpdate' = lastUpdate
             /\ error' = error
             /\ stats' = stats
             /\ started' = started
             /\ proc' = proc
             /\ Running' = Running
             /\ timers' = timers
             /\ isPolling' = isPolling
             /\ now' = now
             /\ staticData' = staticData
             /\ \A k \in Kinds : GetSnapshot(k)' = GetSnapshot(k)]_vars

\* getStopInfo returned predictions while a refresh was waiting for the
\* upstream and nothing was loaded for the other kind
C12_Witness ==
    /\ StopInfoReturned
    /\ response.result.value.upcomingTrips # <<>>
    /\ feed["alerts"] = Null
    /\ \E r \in 1..MaxRefresh : proc["alerts"][r].pc = "sleep"

\* C13: in every state of the poller, getStopInfo for a stop identifier that
\* the Static Index does not hold throws the not-found error, whatever the
\* direction, and the only read it made is the lookup of the stop: it read
\* no snapshot and no status of the monitor.
C13_UnknownStopNotFound ==
    /\ \A stopId \in StopIds, direction \in Directions :
          GetStop(stopId) = Null
             => /\ GetStopInfo(stopId, direction).threw
                /\ GetStopInfo(stopId, direction).message
                      = "Stop " \o stopId \o " not found"
                /\ GetStopInfo(stopId, direction).reads
                      = <<"staticDataService.getStop">>
    /\ (StopInfoCalled /\ ~KnownStop)
          => /\ response.result.threw
             /\ Includes(response.result.message, "not found")
             /\ \A i \in 1..Len(response.result.reads) :
                   ~Includes(response.result.reads[i], "gtfsMonitor")

\* a request for an unknown stop failed while a trip-updates snapshot was
\* held and the alerts feed was degraded
C13_Witness ==
    /\ StopInfoCalled
    /\ ~KnownStop
    /\ response.result.threw
    /\ feed["trips"] # Null
    /\ error["alerts"] # Null

\* C14: getStopInfo for a stop of the Static Index returns a StopInfo and
\* does not throw, in every state of the poller.
C14_KnownStopNeverFails ==
    (StopInfoCalled /\ KnownStop) => ~response.result.threw

Unresolvable(entities) ==
    {i \in 1..Len(entities) :
        /\ entities[i].tripUpdate # Null
        /\ \/ entities[i].tripUpdate.trip.tripId = ""
           \/ entities[i].tripUpdate.trip.tripId \notin DOMAIN staticData.trips}

\* every timestamp of the trip updates of a feed is one a Date can hold
DatesInRange(entities) ==
    \A i \in 1..Len(entities) :
       entities[i].tripUpdate # Null
          => \A j \in 1..Len(entities[i].tripUpdate.stopTimeUpdate) :
                StuTime(entities[i].tripUpdate.stopTimeUpdate[j]).days = 0

\* C16: every prediction of a getStopInfo response carries the trip id of a
\* trip-update entity of the snapshot, and that id resolves in the Static
\* Index; an entity whose trip id is missing or does not resolve yields no
\* prediction, and a snapshot with such entities makes the request neither
\* fail nor warn: the warnings are about staleness and the alerts feed only.
C16_PredictionsResolve ==
    (StopInfoCalled /\ KnownStop /\ GetSnapshot("trips") # Null)
       => LET entities == feed["trips"].entity
          IN /\ (Unresolvable(entities) # {} /\ DatesInRange(entities))
                   => StopInfoReturned
             /\ StopInfoReturned
                   => LET info == response.result.value
                      IN /\ \A i \in 1..Len(info.upcomingTrips) :
                               LET tripId == info.upcomingTrips[i].tripId
                               IN /\ tripId # ""
                                  /\ tripId \in DOMAIN staticData.trips
                                  /\ \E j \in 1..Len(entities) :
                                        /\ j \notin Unresolvable(entities)
                                        /\ entities[j].tripUpdate # Null
                                        /\ entities[j].tripUpdate.trip.tripId = tripId
                         /\ \A i \in 1..Len(info.warnings) :
                               \/ Includes(info.warnings[i], "stale")
                               \/ Includes(info.warnings[i], "alerts data unavailable")

\* the snapshot has an entity without trip id and one with an unknown trip
\* id, both with a future arrival at the stop; the response has predictions
\* and no warning
C16_Witness ==
    /\ StopInfoReturned
    /\ feed["trips"] # Null
    /\ \E j \in Unresolvable(feed["trips"].entity) :
          /\ feed["trips"].entity[j].tripUpdate.trip.tripId = "9999"
          /\ \E u \in 1..Len(feed["trips"].entity[j].tripUpdate.stopTimeUpdate) :
                Emits(feed["trips"].entity[j].tripUpdate.stopTimeUpdate[u],
                      response.stopId, response.at \div 1000)
    /\ Len(response.result.value.upcomingTrips) >= 2
    /\ response.result.value.warnings = <<>>

\* C17: for every prediction of a getStopInfo response, scheduledArrival is
\* estimatedArrival minus the delay that the prediction reports, estimated
\* arrival is strictly after the instant of the request, and the prediction
\* comes from a stop-time update for the stop with that time, its delay
\* being one that the update gives and 0 when it gives none; an update whose
\* time is the instant of the request or earlier gives no prediction.
C17_ScheduledAndFuture ==
    StopInfoReturned
       => LET trips == response.result.value.upcomingTrips
              entities == IF feed["trips"] = Null THEN <<>> ELSE feed["trips"].entity
          IN /\ \A i \in 1..Len(trips) :
                   /\ DateParse(trips[i].scheduledArrival)
                         = DateParse(trips[i].estimatedArrival) - trips[i].delay * 1000
                   /\ DateParse(trips[i].estimatedArrival) > response.at
                   /\ \E j \in 1..Len(entities) :
                         /\ entities[j].tripUpdate # Null
                         /\ entities[j].tripUpdate.trip.tripId = trips[i].tripId
                         /\ \E u \in 1..Len(entities[j].tripUpdate.stopTimeUpdate) :
                               LET stu == entities[j].tripUpdate.stopTimeUpdate[u]
                                   event == IF stu.arrival # Null THEN stu.arrival
                                            ELSE stu.departure
                               IN /\ stu.stopId = response.stopId
                                  /\ event # Null
                                  /\ event.time.secs * 1000
                                        = DateParse(trips[i].estimatedArrival)
                                  /\ trips[i].delay
                                        \in {0} \cup {e.delay : e \in {stu.arrival,
                                                               stu.departure} \ {Null}}
                                  /\ (\A e \in {stu.arrival, stu.departure} \ {Null} :
                                         e.delay = 0) => trips[i].delay = 0
             /\ \A j \in 1..Len(entities) :
                   entities[j].tripUpdate # Null
                      => \A u \in 1..Len(entities[j].tripUpdate.stopTimeUpdate) :
                            LET stu == entities[j].tripUpdate.stopTimeUpdate[u]
                            IN (/\ stu.stopId = response.stopId
                                /\ StuTime(stu).days = 0
                                /\ StuTime(stu).secs * 1000 <= response.at)
                                  => \A i \in 1..Len(trips) :
                                        \/ trips[i].tripId
                                              # entities[j].tripUpdate.trip.tripId
                                        \/ DateParse(trips[i].estimatedArrival)
                                              # StuTime(stu).secs * 1000

\* a request at the very second of an arrival of the snapshot: that arrival
\* is left out, a delayed and an early one are predicted
C17_Witness ==
    /\ StopInfoReturned
    /\ response.direction = NoDirection
    /\ response.at = 30000
    /\ upstream["trips"] = TripsFeedA
    /\ Len(response.result.value.upcomingTrips) = 3
    /\ \E i \in 1..3 : response.result.value.upcomingTrips[i].delay = 30
    /\ \E i \in 1..3 : response.result.value.upcomingTrips[i].delay = -20

\* the predictions of the request before the filter, in sorted order
AllPredictions ==
    IF feed["trips"] = Null THEN <<>>
    ELSE SortTrips(ProcessTrips(feed["trips"], response.stopId))

\* the response has the prediction p
Retained(p) ==
    \E i \in 1..Len(response.result.value.upcomingTrips) :
       /\ response.result.value.upcomingTrips[i].tripId = p.tripId
       /\ response.result.value.upcomingTrips[i].estimatedArrival = p.estimatedArrival

\* C18: the upcomingTrips of a getStopInfo response are in non-decreasing
\* order of estimated arrival, whatever the order of the entities in the
\* snapshot and whether a direction was given or not.
C18_UpcomingTripsSorted ==
    StopInfoReturned
       => LET trips == response.result.value.upcomingTrips
          IN \A i \in 1..Len(trips), j \in 1..Len(trips) :
                i < j => DateParse(trips[i].estimatedArrival)
                            <= DateParse(trips[j].estimatedArrival)

\* the snapshot lists the latest arrival first; the filtered response has
\* two predictions
C18_Witness ==
    /\ StopInfoReturned
    /\ upstream["trips"] = TripsFeedA
    /\ response.direction = "eastbound"
    /\ Len(response.result.value.upcomingTrips) = 2
    /\ response.result.value.upcomingTrips[1].tripId = "1003"
    /\ response.result.value.upcomingTrips[2].tripId = "1001"

\* C19: with a direction that reads "eastbound" in lower case, the response
\* keeps exactly the predictions whose route name has the letter "n" or
\* whose headsign has one of antioch, berryessa, dublin, pittsburg (both in
\* lower case); with "westbound", exactly those whose route name has "s" or
\* whose headsign has one of millbrae, sfo, daly city, richmond; with any
\* other direction, and with none, it keeps every prediction.
C19_DirectionFilter ==
    StopInfoReturned
       => LET dir == ToLowerCase(response.direction)
              East(p) == \/ Includes(ToLowerCase(p.routeName), "n")
                         \/ Includes(ToLowerCase(p.headsign), "antioch")
                         \/ Includes(ToLowerCase(p.headsign), "berryessa")
                         \/ Includes(ToLowerCase(p.headsign), "dublin")
                         \/ Includes(ToLowerCase(p.headsign), "pittsburg")
              West(p) == \/ Includes(ToLowerCase(p.routeName), "s")
                         \/ Includes(ToLowerCase(p.headsign), "millbrae")
                         \/ Includes(ToLowerCase(p.headsign), "sfo")
                         \/ Includes(ToLowerCase(p.headsign), "daly city")
                         \/ Includes(ToLowerCase(p.headsign), "richmond")
              kept == response.result.value.upcomingTrips
          IN /\ dir = "eastbound" => kept = SelectSeq(AllPredictions, East)
             /\ dir = "westbound" => kept = SelectSeq(AllPredictions, West)
             /\ dir \notin {"eastbound", "westbound"} => kept = AllPredictions

\* the direction "Westbound" kept some predictions and discarded others
C19_Witness ==
    /\ StopInfoReturned
    /\ response.direction = "Westbound"
    /\ response.result.value.upcomingTrips # <<>>
    /\ Len(response.result.value.upcomingTrips) < Len(AllPredictions)

\* C20 as stated: with direction "eastbound", a prediction whose headsign is
\* "Richmond / Antioch" is retained and a prediction whose headsign is
\* "SFO/Millbrae" is discarded, whatever its route name.
C20_AsStated ==
    (StopInfoReturned /\ response.direction = "eastbound")
       => \A i \in 1..Len(AllPredictions) :
             /\ AllPredictions[i].headsign = "Richmond / Antioch"
                   => Retained(AllPredictions[i])
             /\ AllPredictions[i].headsign = "SFO/Millbrae"
                   => ~Retained(AllPredictions[i])

\* C20, amended: with direction "eastbound", a prediction whose headsign is
\* "Richmond / Antioch" is retained whatever its route name; a prediction
\* whose headsign is "SFO/Millbrae" is discarded iff its route name, in
\* lower case, has no letter "n".
C20_EastboundExamples ==
    (StopInfoReturned /\ response.direction = "eastbound")
       => \A i \in 1..Len(AllPredictions) :
             /\ AllPredictions[i].headsign = "Richmond / Antioch"
                   => Retained(AllPredictions[i])
             /\ AllPredictions[i].headsign = "SFO/Millbrae"
                   => (~Retained(AllPredictions[i])
                          <=> ~Includes(ToLowerCase(AllPredictions[i].routeName), "n"))

\* under "eastbound" the trip to Richmond / Antioch is retained, the
\* Yellow-S trip to SFO/Millbrae is discarded and the Green-S trip to
\* SFO/Millbrae is retained
C20_Witness ==
    /\ StopInfoReturned
    /\ response.direction = "eastbound"
    /\ \E i \in 1..Len(AllPredictions) :
          /\ AllPredictions[i].headsign = "Richmond / Antioch"
          /\ Retained(AllPredictions[i])
    /\ \E i \in 1..Len(AllPredictions) :
          /\ AllPredictions[i].headsign = "SFO/Millbrae"
          /\ AllPredictions[i].routeName = "Yellow-S"
          /\ ~Retained(AllPredictions[i])
    /\ \E i \in 1..Len(AllPredictions) :
          /\ AllPredictions[i].headsign = "SFO/Millbrae"
          /\ AllPredictions[i].routeName = "Green-S"
          /\ Retained(AllPredictions[i])

----------------------------------------------------------------------------
(* Properties of the responses through an outage *)

\* the age of the trip-updates snapshot at the instant of the request
SnapshotAge == response.at - lastUpdate["trips"].time

\* the staleness warnings of the response
StaleWarnings ==
    LET w == response.result.value.warnings
    IN {i \in 1..Len(w) : Includes(w[i], "stale")}

\* the whole number of seconds nearest to ms milliseconds, the upper one
\* of two that are equally near
NearestSecond(ms) ==
    CHOOSE n \in 0..(ms \div 1000 + 1) : 1000 * n - 500 <= ms /\ ms < 1000 * n + 500

\* C21: when a trip-updates snapshot is present, the response of getStopInfo
\* has a staleness warning exactly when the request comes more than 120 s
\* after the snapshot was captured, and the warning gives the age rounded to
\* whole seconds; so it is while the refreshes fail and the snapshot ages
C21_StaleWarning ==
    (StopInfoReturned /\ GetSnapshot("trips") # Null)
        => /\ StaleWarnings # {} <=> SnapshotAge > 120000
           /\ Cardinality(StaleWarnings) <= 1
           /\ \A i \in StaleWarnings :
                 response.result.value.warnings[i] =
                    "Real-time data is stale ("
                       \o NumberToString(NearestSecond(SnapshotAge)) \o "s old)"

\* a response with the warning for a snapshot held through three exhausted
\* refreshes, of an age half-way between two seconds
C21_Witness ==
    /\ StopInfoReturned
    /\ GetSnapshot("trips") # Null
    /\ stats["trips"].errors >= 3
    /\ SnapshotAge = 120500
    /\ response.result.value.warnings = <<"Real-time data is stale (121s old)">>

----------------------------------------------------------------------------
(* Properties of the static index, the updater and the start *)

\* this step is one in which _processUpdate() calls reload()
ReloadCalled ==
    /\ updater.pc = "download"
    /\ \E i \in 1..Len(updater'.log) : updater'.log[i] = "reload"

\* the identifiers of the rows of a file
IdsOf(rows, key) == {rows[i][key] : i \in 1..Len(rows)}

\* every identifier of the rows resolves in the map to its row, the last
\* of the file with that identifier
ResolvesRows(map, rows, key) ==
    \A i \in 1..Len(rows) :
       (\A j \in (i + 1)..Len(rows) : rows[j][key] # rows[i][key])
          => MapGet(map, rows[i][key]) = rows[i]

\* no identifier of the old map that the rows lack resolves in the map
ForgetsOld(old, map, rows, key) ==
    \A id \in DOMAIN old : id \notin IdsOf(rows, key) => MapGet(map, id) = Null

\* C22: after reload() over files that all parse, every identifier of the
\* new files resolves to its new entry in the stops, routes, trips and
\* stop-times tables, and no identifier that only the old dataset had
\* resolves any more
C22_ReloadHoldsNewDataset ==
    [][(ReloadCalled /\ \A f \in DOMAIN disk' : disk'[f].readable)
          => /\ ResolvesRows(staticData'.stops, disk'.stops.rows, "stop_id")
             /\ ResolvesRows(staticData'.routes, disk'.routes.rows, "route_id")
             /\ ResolvesRows(staticData'.trips, disk'.trips.rows, "trip_id")
             /\ \A id \in IdsOf(disk'.stopTimes.rows, "trip_id") :
                   MapGet(staticData'.stopTimes, id) =
                      SelectSeq(disk'.stopTimes.rows, LAMBDA row : row.trip_id = id)
             /\ ForgetsOld(staticData.stops, staticData'.stops,
                           disk'.stops.rows, "stop_id")
             /\ ForgetsOld(staticData.routes, staticData'.routes,
                           disk'.routes.rows, "route_id")
             /\ ForgetsOld(staticData.trips, staticData'.trips,
                           disk'.trips.rows, "trip_id")
             /\ ForgetsOld(staticData.stopTimes, staticData'.stopTimes,
                           disk'.stopTimes.rows, "trip_id")
             /\ staticData'.initialized]_vars

\* after an update with the whole new dataset, a request for the new stop
\* is answered and the stop that only the old dataset had is unknown
C22_Witness ==
    /\ updater.log = <<"resolve", "download", "validate", "replace", "reload", "done">>
    /\ disk = DiskOf([stops |-> NewStopsFile, routes |-> NewRoutesFile,
                      trips |-> NewTripsFile, stopTimes |-> NewStopTimesFile])
    /\ StopInfoReturned
    /\ response.stopId = "B10-1"
    /\ response.result.value.stop.name = "Rockridge"
    /\ GetStop("A10-1") = Null
    /\ GetTrip("1002") = Null
    /\ GetTrip("1001").trip_headsign = "Antioch"

\* C23: when reload() fails on a file that is missing or malformed, the
\* four tables are as they were before the reload
C23_FailedReloadKeepsTables ==
    [][(ReloadCalled /\ updater'.log[Len(updater'.log)] = "catch")
          => staticData' = staticData]_vars

\* C24: when the load of the static index fails at the start, the start
\* ends there: the process exits with status 1, and the poller is never
\* started, the updater is never started, and the server never listens
C24_FailedLoadStopsStart ==
    /\ [](process.exited
             => /\ process.code = 1
                /\ ~process.listening
                /\ ~isPolling /\ timers = <<>> /\ startCalls = 0
                /\ \A k \in Kinds : started[k] = 0
                /\ ~updater.started /\ updater.runs = 0
                /\ ~response.pending)
    /\ [][/\ (~process.exited /\ ~process.listening
                 /\ LoadFrom(staticData, disk).threw) => process'.exited
          /\ process.exited => process'.exited]_vars

\* the process has exited on a load that failed after the stops were read
C24_Witness ==
    /\ process.exited
    /\ process.code = 1
    /\ ~disk.routes.readable
    /\ DOMAIN staticData.stops # {}
    /\ ~staticData.initialized

\* the steps of an update, in the order of the claim
UpdateOrder == <<"resolve", "download", "validate", "replace", "reload">>

\* the steps a run has taken, without the mark of its end
StepsOf(log) == SelectSeq(log, LAMBDA x : x \notin {"catch", "done"})

InLog(log, step) == \E i \in 1..Len(log) : log[i] = step

\* C25: the steps of an update are taken in the order resolve, download,
\* validate, replace, reload; the files are replaced only in a run whose
\* archive passed validation, reload() is called only after the files were
\* replaced, and a run that fails at the resolution, the download or the
\* validation changes neither the files nor the static index
C25_UpdateOrder ==
    /\ [](LET steps == StepsOf(updater.log)
          IN /\ Len(steps) <= Len(UpdateOrder)
             /\ steps = SubSeq(UpdateOrder, 1, Len(steps))
             /\ \A i \in 1..(Len(updater.log) - 1) :
                   updater.log[i] \notin {"catch", "done"})
    /\ [][/\ disk' # disk
             => /\ updater.log = <<"resolve", "download">>
                /\ InLog(updater'.log, "validate")
                /\ InLog(updater'.log, "replace")
          /\ (staticData' # staticData /\ process.listening)
             => /\ updater.log = <<"resolve", "download">>
                /\ InLog(updater'.log, "replace")
                /\ InLog(updater'.log, "reload")
          /\ (InLog(updater'.log, "catch") /\ ~InLog(updater'.log, "replace"))
             => disk' = disk /\ staticData' = staticData]_vars

\* a first update has replaced the files and reloaded the index, and a
\* second one has ended at the validation of its archive
C25_Witness ==
    /\ updater.runs = 2
    /\ updater.lastUpdate # Null
    /\ updater.log = <<"resolve", "download", "validate", "catch">>
    /\ disk # DiskOf(StaticFiles)
    /\ staticData = Reload(staticData, disk).index
    /\ ~updater.isUpdating

\* C28 as stated: lastUpdated is the capture timestamp of the trip-updates
\* snapshot when the snapshot is present and at most 120 s old, and the
\* instant of the request when it is absent or older
C28_AsStated ==
    StopInfoReturned
        => response.result.value.lastUpdated =
              IF GetSnapshot("trips") # Null /\ SnapshotAge <= 120000
              THEN ToISOString(lastUpdate["trips"])
              ELSE ToISOString(Date(response.at))

\* C28: lastUpdated is the capture timestamp of the trip-updates snapshot
\* whenever the snapshot is present, stale or not, and the instant of the
\* request when it is absent
C28_LastUpdated ==
    StopInfoReturned
        => response.result.value.lastUpdated =
              IF GetSnapshot("trips") # Null
              THEN ToISOString(lastUpdate["trips"])
              ELSE ToISOString(Date(response.at))

\* a response on a stale snapshot carries the capture timestamp of the
\* snapshot, two minutes and a half second before the request
C28_Witness ==
    /\ StopInfoReturned
    /\ GetSnapshot("trips") # Null
    /\ response.at = 120500
    /\ lastUpdate["trips"] = Date(0)
    /\ StaleWarnings # {}
    /\ response.result.value.lastUpdated = "1970-01-01T00:00:00.000Z"

\* C32: at most one update runs at a time: the flag is set exactly while a
\* run is between its begin and its end, so every run that ends, by success
\* or by a failure at any step, resets it; a call made while a run is in
\* progress returns and changes nothing of the run, the files or the index;
\* a call made while none is in progress begins a run; and every call
\* returns to its caller, none throws
C32_OneUpdateAtATime ==
    /\ [](/\ updater.isUpdating <=> updater.pc \in {"resolve", "download"}
          /\ updater.threw = 0
          /\ updater.calls =
                updater.returned + (IF updater.isUpdating THEN 1 ELSE 0))
    /\ [][/\ updater'.calls = updater.calls + 1
             => IF updater.isUpdating
                THEN /\ updater' = [updater EXCEPT !.calls = @ + 1,
                                                   !.returned = @ + 1]
                     /\ disk' = disk
                     /\ staticData' = staticData
                ELSE /\ updater'.isUpdating
                     /\ updater'.pc = "resolve"
                     /\ updater'.runs = updater.runs + 1
          /\ (updater.isUpdating /\ updater'.pc = "idle")
             => /\ ~updater'.isUpdating
                /\ updater'.returned = updater.returned + 1]_vars

\* a second update runs after a first one that ended in a failing reload,
\* and a call made while the first one ran has returned
C32_Witness ==
    /\ updater.calls = 3
    /\ updater.runs = 2
    /\ updater.returned = 2
    /\ updater.isUpdating
    /\ updater.pc = "download"
    /\ process.listening
    /\ ~staticData.initialized

----------------------------------------------------------------------------
(* Properties of the next arrivals *)

\* the handler of /next holds the arrivals it made of a StopInfo
NextReturned == response.pending /\ response.op = "next" /\ ~response.result.threw

\* the number N that the limit parameter of the request writes in decimal
\* digits, 0 when it writes none
RequestedN ==
    IF \E n \in 0..9 : NumberToString(n) = response.limit
    THEN CHOOSE n \in 0..9 : NumberToString(n) = response.limit
    ELSE 0

\* dest is what follows the last occurrence of sep in str
FollowsLast(str, sep, dest) ==
    /\ ~Includes(dest, sep)
    /\ \E k \in 0..Len(str) : SubSeq(str, 1, k) \o sep \o dest = str

\* the arrivals are the first n predictions, in their order, each with its
\* minutes and with status arriving exactly when they are at most 1
FirstOf(arrivals, trips, n) ==
    /\ Len(arrivals) = (IF n < Len(trips) THEN n ELSE Len(trips))
    /\ \A i \in 1..Len(arrivals) :
          /\ arrivals[i].minutesUntilArrival = trips[i].minutesUntilArrival
          /\ arrivals[i].status = "arriving" <=> trips[i].minutesUntilArrival <= 1
          /\ arrivals[i].status \in {"arriving", "scheduled"}

\* C26 as stated: for a requested N the arrivals are the first min(N, count)
\* predictions, each with the final "/"-delimited segment of its headsign
\* as destination
C26_AsStated ==
    (NextReturned /\ response.limit \in {"0", "2", "7"})
        => LET trips == response.result.value.upcomingTrips
               arrivals == response.nextArrivals
           IN /\ FirstOf(arrivals, trips, RequestedN)
              /\ \A i \in 1..Len(arrivals) :
                    \/ FollowsLast(trips[i].headsign, "/", arrivals[i].destination)
                    \/ /\ ~Includes(trips[i].headsign, "/")
                       /\ arrivals[i].destination = trips[i].headsign

\* C26: for a limit parameter that writes a number N of at least 1 the
\* arrivals are the first min(N, count) predictions in their order, and the
\* first min(4, count) when the parameter is absent or writes 0; the
\* destination of each is what follows the last " / " of its headsign, the
\* headsign itself when it has no " / ", and "Unknown" when the headsign is
\* empty; its status is arriving exactly when its minutes are at most 1
C26_NextArrivals ==
    (NextReturned /\ response.limit \in {"", "0", "2", "7"})
        => LET trips == response.result.value.upcomingTrips
               arrivals == response.nextArrivals
           IN /\ FirstOf(arrivals, trips, IF RequestedN = 0 THEN 4 ELSE RequestedN)
              /\ \A i \in 1..Len(arrivals) :
                    IF trips[i].headsign = ""
                    THEN arrivals[i].destination = "Unknown"
                    ELSE \/ FollowsLast(trips[i].headsign, " / ",
                                        arrivals[i].destination)
                         \/ /\ ~Includes(trips[i].headsign, " / ")
                            /\ arrivals[i].destination = trips[i].headsign

\* of four predictions the first two are returned: one of an empty
\* headsign, which is arriving, and one of a headsign with "/" and without
\* " / "
C26_Witness ==
    /\ NextReturned
    /\ response.limit = "2"
    /\ Len(response.result.value.upcomingTrips) = 4
    /\ response.result.value.upcomingTrips[4].headsign = "Richmond / Antioch"
    /\ Len(response.nextArrivals) = 2
    /\ [i \in 1..2 |-> response.nextArrivals[i].destination]
          = <<"Unknown", "SFO/Millbrae">>
    /\ response.nextArrivals[1].status = "arriving"

----------------------------------------------------------------------------
(* Properties of the polling schedule *)

\* the refreshes of kind k whose successor is due before the clock of the
\* model halts
Followed(k) ==
    {r \in 1..(MaxAging - 1) : r * Period(k) <= (MaxAging - 1) * Period("trips")}

\* C27: an exhausted refresh stops neither the schedule nor the process:
\* after it the timer of the kind starts the next refresh; when the upstream
\* answers every request with its feed from some instant on, each feed gets
\* to hold a snapshot with a null error; while no refresh has succeeded,
\* hasData is false, and every request for a known stop is answered
C27_PollingGoesOn ==
    /\ \A k \in Kinds : \A r \in Followed(k) :
          (proc[k][r].pc = "failed") ~> (started[k] > r)
    /\ <>[]Up => \A k \in Kinds : <>[](GetSnapshot(k) # Null /\ error[k] = Null)
    /\ [](\A k \in Kinds : stats[k].updates = 0 => ~GetStatus(k).hasData)
    /\ [](StopInfoCalled /\ KnownStop => ~response.result.threw)
    /\ [](isPolling => ~process.exited)
    /\ response.pending ~> ~response.pending

\* the trips feed is healthy after two of its refreshes were exhausted
C27_Witness ==
    /\ stats["trips"].errors = 2
    /\ GetSnapshot("trips") # Null
    /\ error["trips"] = Null
    /\ GetStatus("trips").hasData
    /\ proc["trips"][1].pc = "failed"
    /\ proc["trips"][2].pc = "failed"

====
